---- MODULE Spec2Model ----
(***************************************************************************)
(* Yu-Gi-Oh hand simulator: the deck model (YuGiOhDeck), the deck loader,  *)
(* the three implementations of the category assignment (gui.py,           *)
(* gui_components/draw_manager.py, main.py run_simulator) and the          *)
(* probability functions of main.py.                                       *)
(*                                                                         *)
(* A Python dict is a sequence of <<key, value>> pairs in insertion order  *)
(* with pairwise different keys; a Python set is a set.                    *)
(***************************************************************************)
EXTENDS Integers, Sequences, FiniteSets, TLC

\* ---------------------------------------------------------------- constants
MAX_COPIES == 3
HAND_SIZE == 5

\* ------------------------------------------------------------------- bounds
\* number of different card ids (and so of card names) in play
NumIds == 2
\* largest number a caller asks for as a category target
MaxTarget == 3
\* largest argument handed to the probability functions: two above HAND_SIZE,
\* so that a sixth card can be drawn from more than one card
MaxArg == 7

\* card ids are strings of digits, as the lines of a deck file give them
Ids == {ToString(i) : i \in 1..NumIds}
\* f"Card_{card_id}"
CardName(card_id) == "Card_" \o card_id
Names == {CardName(i) : i \in Ids}
\* copies handed to add_card: below, inside and above 1..MAX_COPIES
CopiesRange == 0..(MAX_COPIES + 1)
TargetRange == 0..MaxTarget
\* main-deck id lists: long enough for one id to come MAX_COPIES + 1 times
RECURSIVE IdLists(_)
IdLists(n) == IF n = 0 THEN {<< >>}
              ELSE LET shorter == IdLists(n - 1)
                   IN  shorter \cup {Append(s, i) : s \in {t \in shorter : Len(t) = n - 1}, i \in Ids}
MainDeckIds == IdLists(MAX_COPIES + 1)
\* lines of a plaintext deck file: the section headers, two other lines that
\* start with # or !, an empty line, an id with blanks around it, a line that is
\* not all digits, and the ids
LineTexts == {"#main", "#extra", "!side", "#side", "#created by", "!note",
              "", " 1 ", "x1"} \cup Ids
\* deck files: long enough for #main and MAX_COPIES + 1 ids
RECURSIVE Texts(_)
Texts(n) == IF n = 0 THEN {<< >>}
            ELSE LET shorter == Texts(n - 1)
                 IN  shorter \cup {Append(t, l) : t \in {u \in shorter : Len(u) = n - 1},
                                                  l \in LineTexts}
YdkTexts == Texts(MAX_COPIES + 2)
\* hand sizes handed to the draw and the statistics functions
HandSizes == (-1)..HAND_SIZE
\* arguments of the probability functions, one negative value included
ArgRange == (-1)..MaxArg

VARIABLES cards, engine_cards, non_engine_cards, brick_cards,
          last_call, outcome, prob_args, prob_result,
          ydk_code, hand_size_arg, probs, hand, sixth,
          deck_list, odds, deck_loaded, draw_again_btn,
          card_name_cache, requested, counts

vars == <<cards, engine_cards, non_engine_cards, brick_cards,
          last_call, outcome, prob_args, prob_result,
          ydk_code, hand_size_arg, probs, hand, sixth,
          deck_list, odds, deck_loaded, draw_again_btn,
          card_name_cache, requested, counts>>

deck_vars == <<cards, engine_cards, non_engine_cards, brick_cards>>
prob_vars == <<prob_args, prob_result>>
\* the text handed to the loader, and what the caller of the statistics and the
\* draw functions passes and holds: the hand size asked for, the probability
\* tables, the hand, the sixth card and its category
draw_vars == <<ydk_code, hand_size_arg, probs, hand, sixth>>
\* a list get_deck_list has returned to its caller and the sixth-card odds last
\* computed; the window's deck_loaded flag and the state of its Draw Again
\* button; the card-name cache of the process and the ids the last lookup call
\* has asked the service for; the three counts the last assignment of categories
\* has run with: <<brick_count, non_engine_count, engine_count>>
app_vars == <<deck_list, odds, deck_loaded, draw_again_btn, card_name_cache, requested,
              counts>>

\* ------------------------------------------------------------- Python dict
KeySet(d) == {d[i][1] : i \in 1..Len(d)}
IndexOf(d, k) == CHOOSE i \in 1..Len(d) : d[i][1] = k
GetItem(d, k) == d[IndexOf(d, k)][2]
GetOr(d, k, default) == IF k \in KeySet(d) THEN GetItem(d, k) ELSE default
SetItem(d, k, v) == IF k \in KeySet(d)
                    THEN [d EXCEPT ![IndexOf(d, k)] = <<k, v>>]
                    ELSE Append(d, <<k, v>>)

\* -------------------------------------------------------------- YuGiOhDeck
\* what a call of add_card leaves: the exception raised, if any, and deck.cards
Returned(d) == [raised |-> "None", cards |-> d]
Raises(exception, d) == [raised |-> exception, cards |-> d]

\* add_card without its range check
AddCardUnchecked(d, card_name, copies) == Returned(SetItem(d, card_name, copies))

\* add_card adding to the count the name already has
AddCardAccumulates(d, card_name, copies) ==
    IF copies < 1 \/ copies > MAX_COPIES THEN Raises("ValueError", d)
    ELSE Returned(SetItem(d, card_name, GetOr(d, card_name, 0) + copies))

\* add_card(card_name, copies) on deck.cards = d
add_card(d, card_name, copies) ==
    IF copies < 1 \/ copies > MAX_COPIES THEN Raises("ValueError", d)
    ELSE Returned(SetItem(d, card_name, copies))

RECURSIVE SumValues(_, _)
SumValues(d, i) == IF i > Len(d) THEN 0 ELSE d[i][2] + SumValues(d, i + 1)
get_deck_size(d) == SumValues(d, 1)

\* [card_name] * copies
Repeat(x, n) == [i \in 1..n |-> x]
RECURSIVE ExtendAll(_, _, _)
ExtendAll(d, i, deck) ==
    IF i > Len(d) THEN deck
    ELSE ExtendAll(d, i + 1, deck \o Repeat(d[i][1], d[i][2]))
\* get_deck_list appending each name once, whatever its copy count
GetDeckListOnce(d) == [i \in 1..Len(d) |-> d[i][1]]
get_deck_list(d) == ExtendAll(d, 1, << >>)

\* the state of a deck object: cards and the three category sets
DeckState(d, e, ne, b) == [cards |-> d, engine |-> e, non_engine |-> ne, brick |-> b]
\* clear_deck emptying the cards and leaving the category sets
ClearDeckKeepsCategories(deck) == DeckState(<< >>, deck.engine, deck.non_engine, deck.brick)
\* clear_deck without brick_cards.clear()
ClearDeckKeepsBricks(deck) == DeckState(<< >>, {}, {}, deck.brick)
clear_deck(deck) == DeckState(<< >>, {}, {}, {})

\* sum(deck.cards[c] for c in category)
RECURSIVE CategoryTotal(_, _)
CategoryTotal(d, cat) ==
    IF cat = {} THEN 0
    ELSE LET c == CHOOSE x \in cat : TRUE
         IN  GetItem(d, c) + CategoryTotal(d, cat \ {c})

\* ------------------------------------------------------------- deck loader
\* card_database.get(card_id, f"Card_{card_id}") with use_api False: the
\* database is empty, so every id resolves to its default name
ResolveName(card_id) == CardName(card_id)

\* card_counts[card_name] = card_counts.get(card_name, 0) + 1, for every id
RECURSIVE CountCards(_, _, _)
CountCards(card_ids, i, card_counts) ==
    IF i > Len(card_ids) THEN card_counts
    ELSE LET card_name == ResolveName(card_ids[i])
         IN  CountCards(card_ids, i + 1,
                        SetItem(card_counts, card_name, GetOr(card_counts, card_name, 0) + 1))

\* str.strip(): the blanks at both ends go
RECURSIVE strip(_)
strip(text) ==
    IF Len(text) > 0 /\ SubSeq(text, 1, 1) = " " THEN strip(SubSeq(text, 2, Len(text)))
    ELSE IF Len(text) > 0 /\ SubSeq(text, Len(text), Len(text)) = " "
    THEN strip(SubSeq(text, 1, Len(text) - 1))
    ELSE text
\* str.startswith(prefix)
startswith(text, prefix) ==
    Len(text) >= Len(prefix) /\ SubSeq(text, 1, Len(prefix)) = prefix
\* str.isdigit(): at least one character, and all of them digits
isdigit(text) ==
    /\ Len(text) > 0
    /\ \A i \in 1..Len(text) :
          SubSeq(text, i, i) \in {"0", "1", "2", "3", "4", "5", "6", "7", "8", "9"}

\* the loop over the lines without the test of in_main_deck
RECURSIVE PlaintextIdsAnySection(_, _, _, _)
PlaintextIdsAnySection(lines, i, in_main_deck, card_ids) ==
    IF i > Len(lines) THEN card_ids
    ELSE LET line == strip(lines[i])
         IN  IF line = "" \/ startswith(line, "#") \/ startswith(line, "!")
             THEN PlaintextIdsAnySection(lines, i + 1, in_main_deck, card_ids)
             ELSE IF isdigit(line)
             THEN PlaintextIdsAnySection(lines, i + 1, in_main_deck, Append(card_ids, line))
             ELSE PlaintextIdsAnySection(lines, i + 1, in_main_deck, card_ids)

\* the loop over ydk_code.splitlines() from line i on: the ids of the main deck
RECURSIVE PlaintextIds(_, _, _, _)
PlaintextIds(lines, i, in_main_deck, card_ids) ==
    IF i > Len(lines) THEN card_ids
    ELSE LET line == strip(lines[i])
         IN  IF line = "" THEN PlaintextIds(lines, i + 1, in_main_deck, card_ids)
             ELSE IF line = "#main" THEN PlaintextIds(lines, i + 1, TRUE, card_ids)
             ELSE IF line \in {"#extra", "!side", "#side"}
             THEN PlaintextIds(lines, i + 1, FALSE, card_ids)
             ELSE IF startswith(line, "#") \/ startswith(line, "!")
             THEN PlaintextIds(lines, i + 1, in_main_deck, card_ids)
             ELSE IF in_main_deck /\ isdigit(line)
             THEN PlaintextIds(lines, i + 1, in_main_deck, Append(card_ids, line))
             ELSE PlaintextIds(lines, i + 1, in_main_deck, card_ids)

\* the loop returning False on a name with more than MAX_COPIES copies without
\* clearing the deck: the cards added before it stay
RECURSIVE AddCountedKeepsPrefix(_, _, _)
AddCountedKeepsPrefix(card_counts, i, d) ==
    IF i > Len(card_counts) THEN [result |-> "True", cards |-> d]
    ELSE LET card_name == card_counts[i][1]
             copies == card_counts[i][2]
             added == add_card(d, card_name, copies)
         IN  IF copies > MAX_COPIES THEN [result |-> "False", cards |-> d]
             ELSE IF added.raised # "None" THEN [result |-> added.raised, cards |-> added.cards]
             ELSE AddCountedKeepsPrefix(card_counts, i + 1, added.cards)

\* the loop that moves card_counts into the deck: a name with more than MAX_COPIES
\* copies clears the deck and ends the load, an add_card error leaves the loop
RECURSIVE AddCounted(_, _, _)
AddCounted(card_counts, i, d) ==
    IF i > Len(card_counts) THEN [result |-> "True", cards |-> d]
    ELSE LET card_name == card_counts[i][1]
             copies == card_counts[i][2]
             added == add_card(d, card_name, copies)
         IN  IF copies > MAX_COPIES THEN [result |-> "False", cards |-> << >>]
             ELSE IF added.raised # "None" THEN [result |-> added.raised, cards |-> added.cards]
             ELSE AddCounted(card_counts, i + 1, added.cards)

\* load_ydk_code(deck, ydk_code, use_api=False) on the main-deck ids of ydk_code:
\* the deck is cleared, an empty id list ends the load
load_ydk_code(card_ids) ==
    IF card_ids = << >> THEN [result |-> "False", cards |-> << >>]
    ELSE AddCounted(CountCards(card_ids, 1, << >>), 1, << >>)

\* ---------------------------------------------------- category assignment
\* the loop without the test for cards an earlier loop has taken
RECURSIVE GuiPassNoSkip(_, _, _, _, _)
GuiPassNoSkip(d, i, remaining, skip, category) ==
    IF i > Len(d) \/ remaining <= 0 THEN category
    ELSE LET copies == d[i][2]
         IN  GuiPassNoSkip(d, i + 1, remaining - copies, skip,
                           IF copies <= remaining THEN category \cup {d[i][1]} ELSE category)

\* the loop adding every card it visits, whether or not its copies fit
RECURSIVE GuiPassAlwaysAdds(_, _, _, _, _)
GuiPassAlwaysAdds(d, i, remaining, skip, category) ==
    IF i > Len(d) \/ remaining <= 0 THEN category
    ELSE IF d[i][1] \in skip THEN GuiPassAlwaysAdds(d, i + 1, remaining, skip, category)
    ELSE GuiPassAlwaysAdds(d, i + 1, remaining - d[i][2], skip, category \cup {d[i][1]})

\* the loop taking the copies of a card off `remaining` also when the card is
\* passed over because an earlier loop has taken it
RECURSIVE GuiPassSkipDecrements(_, _, _, _, _)
GuiPassSkipDecrements(d, i, remaining, skip, category) ==
    IF i > Len(d) \/ remaining <= 0 THEN category
    ELSE IF d[i][1] \in skip
    THEN GuiPassSkipDecrements(d, i + 1, remaining - d[i][2], skip, category)
    ELSE LET copies == d[i][2]
         IN  GuiPassSkipDecrements(d, i + 1, remaining - copies, skip,
                                   IF copies <= remaining THEN category \cup {d[i][1]}
                                   ELSE category)

\* gui.py: one loop over card_list, from position i, with `remaining` left
RECURSIVE GuiPass(_, _, _, _, _)
GuiPass(d, i, remaining, skip, category) ==
    IF i > Len(d) \/ remaining <= 0 THEN category
    ELSE IF d[i][1] \in skip THEN GuiPass(d, i + 1, remaining, skip, category)
    ELSE LET copies == d[i][2]
         IN  GuiPass(d, i + 1, remaining - copies, skip,
                     IF copies <= remaining THEN category \cup {d[i][1]} ELSE category)

\* the assignment without the three clear() calls, each loop passing over every
\* card that is in a category already
GuiAssignKeepsOld(deck, brick_count, non_engine_count, engine_count) ==
    LET brick == GuiPass(deck.cards, 1, brick_count,
                         deck.engine \cup deck.non_engine \cup deck.brick, deck.brick)
        non_engine == GuiPass(deck.cards, 1, non_engine_count,
                              deck.engine \cup deck.non_engine \cup brick, deck.non_engine)
        engine == GuiPass(deck.cards, 1, engine_count,
                          deck.engine \cup non_engine \cup brick, deck.engine)
    IN  DeckState(deck.cards, engine, non_engine, brick)

\* gui.py apply_and_draw, "Assign categories": clear the three sets, then the
\* brick, the non-engine and the engine loop
gui_assign_categories(deck, brick_count, non_engine_count, engine_count) ==
    LET engine0 == {}
        non_engine0 == {}
        brick0 == {}
        brick == GuiPass(deck.cards, 1, brick_count, {}, brick0)
        non_engine == GuiPass(deck.cards, 1, non_engine_count, brick, non_engine0)
        engine == GuiPass(deck.cards, 1, engine_count, brick \cup non_engine, engine0)
    IN  DeckState(deck.cards, engine, non_engine, brick)

\* gui_components/draw_manager.py: one loop over card_list
RECURSIVE DrawManagerPass(_, _, _, _, _)
DrawManagerPass(d, i, remaining, skip, category) ==
    IF i > Len(d) \/ remaining <= 0 THEN category
    ELSE IF d[i][1] \in skip THEN DrawManagerPass(d, i + 1, remaining, skip, category)
    ELSE LET copies == d[i][2]
         IN  DrawManagerPass(d, i + 1, remaining - copies, skip,
                             IF copies <= remaining THEN category \cup {d[i][1]} ELSE category)

\* draw_manager.py apply_and_draw, "Assign categories"
draw_manager_assign_categories(deck, brick_count, non_engine_count, engine_count) ==
    LET engine0 == {}
        non_engine0 == {}
        brick0 == {}
        brick == DrawManagerPass(deck.cards, 1, brick_count, {}, brick0)
        non_engine == DrawManagerPass(deck.cards, 1, non_engine_count, brick, non_engine0)
        engine == DrawManagerPass(deck.cards, 1, engine_count, brick \cup non_engine, engine0)
    IN  DeckState(deck.cards, engine, non_engine, brick)

\* main.py run_simulator: one loop over card_list
RECURSIVE RunSimulatorPass(_, _, _, _, _)
RunSimulatorPass(d, i, remaining, skip, category) ==
    IF i > Len(d) \/ remaining <= 0 THEN category
    ELSE IF d[i][1] \in skip THEN RunSimulatorPass(d, i + 1, remaining, skip, category)
    ELSE LET copies == d[i][2]
         IN  RunSimulatorPass(d, i + 1, remaining - copies, skip,
                              IF copies <= remaining THEN category \cup {d[i][1]} ELSE category)

\* main.py run_simulator, "Assign categories": clear the three sets, then the
\* engine, the non-engine and the brick loop
run_simulator_assign_categories(deck, brick_count, non_engine_count, engine_count) ==
    LET engine0 == {}
        non_engine0 == {}
        brick0 == {}
        engine == RunSimulatorPass(deck.cards, 1, engine_count, {}, engine0)
        non_engine == RunSimulatorPass(deck.cards, 1, non_engine_count, engine, non_engine0)
        brick == RunSimulatorPass(deck.cards, 1, brick_count, engine \cup non_engine, brick0)
    IN  DeckState(deck.cards, engine, non_engine, brick)

\* the targets a caller lets through: apply_and_draw refuses a total above
\* the deck size and a negative count, run_simulator asks again until
\* 0 <= count <= what the deck has left
ValidTargets(d, brick_count, non_engine_count, engine_count) ==
    /\ brick_count + non_engine_count + engine_count <= get_deck_size(d)
    /\ brick_count >= 0 /\ non_engine_count >= 0 /\ engine_count >= 0

\* ----------------------------------------------------- probability engine
RECURSIVE Gcd(_, _)
Gcd(a, b) == IF b = 0 THEN a ELSE Gcd(b, a % b)
\* a Python float that is the quotient of two integers, in lowest terms, or the
\* exception raised; the rounding of the quotient to a double is left out
Float(num, den) == [raised |-> "None", num |-> num \div Gcd(num, den),
                    den |-> den \div Gcd(num, den)]
Raised(exception) == [raised |-> exception, num |-> 0, den |-> 1]
Zero == Float(0, 1)

\* math.comb(n, k): ValueError on a negative argument, 0 when k > n
comb_raises(n, k) == n < 0 \/ k < 0
RECURSIVE CombProduct(_, _)
CombProduct(n, k) == IF k = 0 THEN 1 ELSE (CombProduct(n, k - 1) * (n - k + 1)) \div k
comb(n, k) == IF k > n THEN 0 ELSE CombProduct(n, k)

\* hypergeometric_probability with >= for > in its first test
HypergeometricOffByOne(population, successes_in_pop, draws, target_successes) ==
    IF target_successes >= successes_in_pop \/ target_successes > draws THEN Zero
    ELSE IF target_successes < 0
            \/ (draws - target_successes) > (population - successes_in_pop) THEN Zero
    ELSE Float(comb(successes_in_pop, target_successes)
                 * comb(population - successes_in_pop, draws - target_successes),
               comb(population, draws))

\* hypergeometric_probability drawing all of `draws` from the other cards
HypergeometricWrongRest(population, successes_in_pop, draws, target_successes) ==
    IF target_successes > successes_in_pop \/ target_successes > draws THEN Zero
    ELSE IF target_successes < 0
            \/ (draws - target_successes) > (population - successes_in_pop) THEN Zero
    ELSE Float(comb(successes_in_pop, target_successes)
                 * comb(population - successes_in_pop, draws),
               comb(population, draws))

\* hypergeometric_probability without its second test
HypergeometricNoSecondTest(population, successes_in_pop, draws, target_successes) ==
    IF target_successes > successes_in_pop \/ target_successes > draws THEN Zero
    ELSE IF \/ comb_raises(successes_in_pop, target_successes)
            \/ comb_raises(population - successes_in_pop, draws - target_successes)
            \/ comb_raises(population, draws)
         THEN Raised("ValueError")
    ELSE LET numerator == comb(successes_in_pop, target_successes)
                            * comb(population - successes_in_pop, draws - target_successes)
             denominator == comb(population, draws)
         IN  IF denominator > 0 THEN Float(numerator, denominator) ELSE Zero

hypergeometric_probability(population, successes_in_pop, draws, target_successes) ==
    IF target_successes > successes_in_pop \/ target_successes > draws THEN Zero
    ELSE IF target_successes < 0
            \/ (draws - target_successes) > (population - successes_in_pop) THEN Zero
    ELSE IF \/ comb_raises(successes_in_pop, target_successes)
            \/ comb_raises(population - successes_in_pop, draws - target_successes)
            \/ comb_raises(population, draws)
         THEN Raised("ValueError")
    ELSE LET numerator == comb(successes_in_pop, target_successes)
                            * comb(population - successes_in_pop, draws - target_successes)
             denominator == comb(population, draws)
         IN  IF denominator > 0 THEN Float(numerator, denominator) ELSE Zero

One == Float(1, 1)
\* prob += value: the sum of two floats; an exception raised by the operand
\* ends the computation
FloatAdd(a, b) ==
    IF a.raised # "None" THEN a
    ELSE IF b.raised # "None" THEN b
    ELSE LET den == (a.den * b.den) \div Gcd(a.den, b.den)
         IN  Float(a.num * (den \div a.den) + b.num * (den \div b.den), den)

Min(a, b) == IF a <= b THEN a ELSE b

\* the loop of probability_at_least from k on, with prob summed so far
RECURSIVE AtLeastLoop(_, _, _, _, _)
AtLeastLoop(population, successes_in_pop, draws, k, prob) ==
    IF k > Min(successes_in_pop, draws) THEN prob
    ELSE AtLeastLoop(population, successes_in_pop, draws, k + 1,
                     FloatAdd(prob, hypergeometric_probability(population, successes_in_pop,
                                                               draws, k)))

\* probability_at_least starting its loop one above min_successes
AtLeastSkipsFirst(population, successes_in_pop, draws, min_successes) ==
    AtLeastLoop(population, successes_in_pop, draws, min_successes + 1, Zero)

\* probability_at_least with range(min_successes, min(successes_in_pop, draws))
RECURSIVE AtLeastLoopExclusive(_, _, _, _, _)
AtLeastLoopExclusive(population, successes_in_pop, draws, k, prob) ==
    IF k >= Min(successes_in_pop, draws) THEN prob
    ELSE AtLeastLoopExclusive(population, successes_in_pop, draws, k + 1,
                              FloatAdd(prob, hypergeometric_probability(population,
                                                                        successes_in_pop,
                                                                        draws, k)))
AtLeastStopsEarly(population, successes_in_pop, draws, min_successes) ==
    AtLeastLoopExclusive(population, successes_in_pop, draws, min_successes, Zero)

probability_at_least(population, successes_in_pop, draws, min_successes) ==
    AtLeastLoop(population, successes_in_pop, draws, min_successes, Zero)

\* the exception a table raises while it is built: that of one of its entries
RaisedIn(table) ==
    IF \A key \in DOMAIN table : table[key].raised = "None" THEN "None"
    ELSE table[CHOOSE key \in DOMAIN table : table[key].raised # "None"].raised

\* the conditions of a cell without the test against the cards that are left
CellPresentIgnoresOthers(deck_size, engine_count, non_engine_count, hand_size, eng, non_eng) ==
    /\ eng <= engine_count /\ non_eng <= non_engine_count
    /\ hand_size - eng - non_eng >= 0

\* whether the loops over eng and non_eng store a value under (eng, non_eng)
CellPresent(deck_size, engine_count, non_engine_count, hand_size, eng, non_eng) ==
    LET other_count == deck_size - engine_count - non_engine_count
        other_in_hand == hand_size - eng - non_eng
    IN  /\ eng <= engine_count /\ non_eng <= non_engine_count
        /\ other_in_hand >= 0 /\ other_in_hand <= other_count

\* the value of a cell without the factor for the other cards
CellValueNoOthers(deck_size, engine_count, non_engine_count, hand_size, eng, non_eng) ==
    IF comb(deck_size, hand_size) = 0 THEN Raised("ZeroDivisionError")
    ELSE Float(comb(engine_count, eng) * comb(non_engine_count, non_eng),
               comb(deck_size, hand_size))

\* the value stored under (eng, non_eng): math.comb raises on a negative
\* argument, the division on a divisor 0
CellValue(deck_size, engine_count, non_engine_count, hand_size, eng, non_eng) ==
    LET other_count == deck_size - engine_count - non_engine_count
        other_in_hand == hand_size - eng - non_eng
    IN  IF \/ comb_raises(engine_count, eng)
           \/ comb_raises(non_engine_count, non_eng)
           \/ comb_raises(other_count, other_in_hand)
           \/ comb_raises(deck_size, hand_size)
        THEN Raised("ValueError")
        ELSE IF comb(deck_size, hand_size) = 0 THEN Raised("ZeroDivisionError")
        ELSE Float(comb(engine_count, eng) * comb(non_engine_count, non_eng)
                     * comb(other_count, other_in_hand),
                   comb(deck_size, hand_size))

\* probs['combinations']: the keys the two loops store, with their values
Combinations(deck_size, engine_count, non_engine_count, hand_size) ==
    [key \in {c \in (0..hand_size) \X (0..hand_size) :
                 /\ c[2] <= hand_size - c[1]
                 /\ CellPresent(deck_size, engine_count, non_engine_count, hand_size,
                                c[1], c[2])}
        |-> CellValue(deck_size, engine_count, non_engine_count, hand_size, key[1], key[2])]

\* the dict calculate_probabilities builds from the four totals
Probabilities(deck_size, engine_count, non_engine_count, brick_count, hand_size) ==
    [deck_size |-> deck_size,
     engine_total |-> engine_count,
     non_engine_total |-> non_engine_count,
     brick_total |-> brick_count,
     engine_probs |-> [i \in 0..hand_size |->
         hypergeometric_probability(deck_size, engine_count, hand_size, i)],
     non_engine_probs |-> [i \in 0..hand_size |->
         hypergeometric_probability(deck_size, non_engine_count, hand_size, i)],
     brick_probs |-> [i \in 0..hand_size |->
         hypergeometric_probability(deck_size, brick_count, hand_size, i)],
     engine_at_least |-> [i \in 0..hand_size |->
         probability_at_least(deck_size, engine_count, hand_size, i)],
     non_engine_at_least |-> [i \in 0..hand_size |->
         probability_at_least(deck_size, non_engine_count, hand_size, i)],
     brick_at_least |-> [i \in 0..hand_size |->
         probability_at_least(deck_size, brick_count, hand_size, i)],
     combinations |-> Combinations(deck_size, engine_count, non_engine_count, hand_size)]

\* the product of two floats
FloatMul(a, b) ==
    IF a.raised # "None" THEN a
    ELSE IF b.raised # "None" THEN b
    ELSE Float(a.num * b.num, a.den * b.den)

\* the dict's get(key, 0) on one of the tables of probs
TableGet(table, key) == IF key \in DOMAIN table THEN table[key] ELSE Zero

\* brick_by_turn1 adding the chance of a brick as sixth card whether or not
\* the opening hand has one
BrickByTurn1Unconditional(p) ==
    LET open_brick == FloatMul(TableGet(p.brick_at_least, 1), Float(100, 1))
        draw_brick_6th == IF p.deck_size > 5
                          THEN FloatMul(Float(p.brick_total, p.deck_size - 5), Float(100, 1))
                          ELSE Zero
    IN  FloatAdd(open_brick, draw_brick_6th)

\* main.py display_results, "Brick danger zone": brick_by_turn1, in percent
display_results_brick_by_turn1(p) ==
    LET open_brick == FloatMul(TableGet(p.brick_at_least, 1), Float(100, 1))
        no_brick_open == TableGet(p.brick_probs, 0)
        brick_total == p.brick_total
        deck_size == p.deck_size
        no_brick_then_draw ==
            IF deck_size > 5
            THEN FloatMul(FloatMul(no_brick_open, Float(brick_total, deck_size - 5)),
                          Float(100, 1))
            ELSE Zero
    IN  FloatAdd(open_brick, no_brick_then_draw)

\* brick_by_turn1 with the conditional around the second summand only:
\* open_brick + (... if deck_size > 5 else open_brick)
GuiBrickByTurn1ElseInside(deck_size, brick_count) ==
    LET hand_size == 5
        open_brick == FloatMul(probability_at_least(deck_size, brick_count, hand_size, 1),
                               Float(100, 1))
        no_brick_open == hypergeometric_probability(deck_size, brick_count, hand_size, 0)
    IN  FloatAdd(open_brick,
                 IF deck_size > 5
                 THEN FloatMul(FloatMul(FloatMul(no_brick_open, Float(brick_count, 1)),
                                        Float(1, deck_size - 5)),
                               Float(100, 1))
                 ELSE open_brick)

\* gui.py display_statistics, "Brick Analysis": brick_by_turn1, in percent
gui_brick_by_turn1(deck_size, brick_count) ==
    LET hand_size == 5
        open_brick == FloatMul(probability_at_least(deck_size, brick_count, hand_size, 1),
                               Float(100, 1))
        no_brick_open == hypergeometric_probability(deck_size, brick_count, hand_size, 0)
    IN  IF deck_size > 5
        THEN FloatAdd(open_brick,
                      FloatMul(FloatMul(FloatMul(no_brick_open, Float(brick_count, 1)),
                                        Float(1, deck_size - 5)),
                               Float(100, 1)))
        ELSE open_brick

\* gui_components/stats_manager.py display_statistics, "Brick Analysis":
\* brick_by_turn1, in percent
stats_manager_brick_by_turn1(deck_size, brick_count) ==
    LET hand_size == 5
        open_brick == FloatMul(probability_at_least(deck_size, brick_count, hand_size, 1),
                               Float(100, 1))
        no_brick_open == hypergeometric_probability(deck_size, brick_count, hand_size, 0)
    IN  IF deck_size > 5
        THEN FloatAdd(open_brick,
                      FloatMul(FloatMul(FloatMul(no_brick_open, Float(brick_count, 1)),
                                        Float(1, deck_size - 5)),
                               Float(100, 1)))
        ELSE open_brick

\* gui.py display_statistics, one cell of the matrix (hand_size = 5): the
\* percentage shown, or the dash
GuiMatrixCell(deck, eng, ne) ==
    LET deck_size == get_deck_size(deck.cards)
        engine_count == CategoryTotal(deck.cards, deck.engine)
        non_engine_count == CategoryTotal(deck.cards, deck.non_engine)
        prob == CellValue(deck_size, engine_count, non_engine_count, HAND_SIZE, eng, ne)
    IN  IF /\ eng + ne <= 5
           /\ CellPresent(deck_size, engine_count, non_engine_count, HAND_SIZE, eng, ne)
        THEN [shown |-> prob.raised = "None" /\ prob.num > 0, prob |-> prob]
        ELSE [shown |-> FALSE, prob |-> Zero]

\* calculate_probabilities(deck, hand_size)
calculate_probabilities(deck, hand_size) ==
    Probabilities(get_deck_size(deck.cards),
                  CategoryTotal(deck.cards, deck.engine),
                  CategoryTotal(deck.cards, deck.non_engine),
                  CategoryTotal(deck.cards, deck.brick),
                  hand_size)

\* ------------------------------------------------------------ test hands
Max(a, b) == IF a >= b THEN a ELSE b
\* random.shuffle leaves the list in any order of its positions
Orders(n) == {p \in [1..n -> 1..n] : \A i \in 1..n, j \in 1..n : i # j => p[i] # p[j]}
\* list[:stop], a negative stop counting from the end
SliceTo(list, stop) ==
    IF stop >= 0 THEN SubSeq(list, 1, Min(stop, Len(list)))
    ELSE SubSeq(list, 1, Max(Len(list) + stop, 0))

\* a hand of cards picked with replacement, as random.choices would give
DrawWithReplacement(deck, size) ==
    LET full_deck == get_deck_list(deck.cards)
    IN  {[i \in 1..size |-> full_deck[f[i]]] : f \in [1..size -> 1..Len(full_deck)]}

\* draw_test_hand(deck, hand_size): the hands it can return
draw_test_hand(deck, size) ==
    LET full_deck == get_deck_list(deck.cards)
    IN  {SliceTo([i \in 1..Len(full_deck) |-> full_deck[p[i]]], size) :
            p \in Orders(Len(full_deck))}

\* list.remove(card) when card is in the list: the first occurrence goes
RemoveFirst(list, card) ==
    IF \E i \in 1..Len(list) : list[i] = card
    THEN LET first == CHOOSE i \in 1..Len(list) :
                          list[i] = card /\ \A j \in 1..(i - 1) : list[j] # card
         IN  SubSeq(list, 1, first - 1) \o SubSeq(list, first + 1, Len(list))
    ELSE list

\* for card in hand: if card in temp_deck: temp_deck.remove(card)
RECURSIVE RemoveHand(_, _, _)
RemoveHand(temp_deck, cards_in_hand, i) ==
    IF i > Len(cards_in_hand) THEN temp_deck
    ELSE RemoveHand(RemoveFirst(temp_deck, cards_in_hand[i]), cards_in_hand, i + 1)

\* the if/elif chain over the three category sets
CategoryOf(deck, drawn) ==
    IF drawn \in deck.engine THEN "ENGINE"
    ELSE IF drawn \in deck.non_engine THEN "NON-ENGINE"
    ELSE IF drawn \in deck.brick THEN "BRICK"
    ELSE "UNCATEGORIZED"

\* simulate_6th_card drawing from the whole deck, the hand still in it
SimulateKeepsHand(deck, cards_in_hand) ==
    LET temp_deck == get_deck_list(deck.cards)
    IN  IF temp_deck = << >> THEN {<<"No cards left", "none">>}
        ELSE {<<temp_deck[i], CategoryOf(deck, temp_deck[i])>> : i \in 1..Len(temp_deck)}

\* simulate_6th_card(deck, hand): the pairs it can return, random.choice
\* taking any entry of temp_deck
simulate_6th_card(deck, cards_in_hand) ==
    LET temp_deck == RemoveHand(get_deck_list(deck.cards), cards_in_hand, 1)
    IN  IF temp_deck = << >> THEN {<<"No cards left", "none">>}
        ELSE {<<temp_deck[i], CategoryOf(deck, temp_deck[i])>> : i \in 1..Len(temp_deck)}

\* sum(1 for c in hand if c in category)
InHand(cards_in_hand, category) ==
    Cardinality({i \in 1..Len(cards_in_hand) : cards_in_hand[i] \in category})

\* x / remaining_deck if remaining_deck > 0 else 0
OddsOrZero(x, remaining_deck) == IF remaining_deck > 0 THEN Float(x, remaining_deck) ELSE Zero

\* calculate_6th_card_odds(deck, hand)
calculate_6th_card_odds(deck, cards_in_hand) ==
    LET deck_size == get_deck_size(deck.cards)
        remaining_deck == deck_size - 5
        engine_in_hand == InHand(cards_in_hand, deck.engine)
        non_engine_in_hand == InHand(cards_in_hand, deck.non_engine)
        brick_in_hand == InHand(cards_in_hand, deck.brick)
        engine_total == CategoryTotal(deck.cards, deck.engine)
        non_engine_total == CategoryTotal(deck.cards, deck.non_engine)
        brick_total == CategoryTotal(deck.cards, deck.brick)
        engine_remaining == engine_total - engine_in_hand
        non_engine_remaining == non_engine_total - non_engine_in_hand
        brick_remaining == brick_total - brick_in_hand
    IN  [remaining_deck |-> remaining_deck,
         engine_remaining |-> engine_remaining,
         non_engine_remaining |-> non_engine_remaining,
         brick_remaining |-> brick_remaining,
         engine_prob |-> OddsOrZero(engine_remaining, remaining_deck),
         non_engine_prob |-> OddsOrZero(non_engine_remaining, remaining_deck),
         brick_prob |-> OddsOrZero(brick_remaining, remaining_deck)]

Deck == DeckState(cards, engine_cards, non_engine_cards, brick_cards)

SetDeck(deck) ==
    /\ cards' = deck.cards
    /\ engine_cards' = deck.engine
    /\ non_engine_cards' = deck.non_engine
    /\ brick_cards' = deck.brick

\* no list returned and no odds computed yet; YuGiOhHandSimulator.__init__ and
\* create_widgets; the cache of a new process
InitApp ==
    /\ deck_list = << >>
    /\ odds = << >>
    /\ deck_loaded = FALSE
    /\ draw_again_btn = "disabled"
    /\ card_name_cache = << >>
    /\ requested = {}
    /\ counts = << >>

Init ==
    /\ cards = << >>
    /\ engine_cards = {}
    /\ non_engine_cards = {}
    /\ brick_cards = {}
    /\ last_call = "__init__"
    /\ outcome = "None"
    /\ prob_args = << >>
    /\ prob_result = Zero
    /\ ydk_code = << >>
    /\ hand_size_arg = HAND_SIZE
    /\ probs = << >>
    /\ hand = << >>
    /\ sixth = << >>
    /\ InitApp

\* deck.add_card(card_name, copies)
AddCard(card_name, copies) ==
    /\ cards' = add_card(cards, card_name, copies).cards
    /\ outcome' = add_card(cards, card_name, copies).raised
    /\ last_call' = "add_card"
    /\ UNCHANGED <<engine_cards, non_engine_cards, brick_cards, prob_vars, draw_vars, app_vars>>

\* deck.clear_deck()
ClearDeck ==
    /\ SetDeck(clear_deck(Deck))
    /\ outcome' = "None"
    /\ last_call' = "clear_deck"
    /\ UNCHANGED <<prob_vars, draw_vars, app_vars>>

\* load_ydk_code(deck, ydk_code, use_api=False)
LoadYdkCode(card_ids) ==
    /\ LET loaded == load_ydk_code(card_ids)
       IN  /\ SetDeck(DeckState(loaded.cards, {}, {}, {}))
           /\ outcome' = loaded.result
    /\ last_call' = "load_ydk_code"
    /\ UNCHANGED <<prob_vars, draw_vars, app_vars>>

\* gui.py apply_and_draw from the checks of the counts on: counts that pass
\* them, then the assignment of the categories
ApplyAndDraw(brick_count, non_engine_count, engine_count) ==
    /\ ValidTargets(cards, brick_count, non_engine_count, engine_count)
    /\ SetDeck(gui_assign_categories(Deck, brick_count, non_engine_count, engine_count))
    /\ outcome' = "None"
    /\ last_call' = "gui.apply_and_draw"
    /\ UNCHANGED <<prob_vars, draw_vars, app_vars>>

\* draw_manager.apply_and_draw from the checks of the counts on: counts that
\* pass them, then the assignment of the categories
DrawManagerApplyAndDraw(brick_count, non_engine_count, engine_count) ==
    /\ ValidTargets(cards, brick_count, non_engine_count, engine_count)
    /\ SetDeck(draw_manager_assign_categories(Deck, brick_count, non_engine_count, engine_count))
    /\ outcome' = "None"
    /\ last_call' = "draw_manager.apply_and_draw"
    /\ UNCHANGED <<prob_vars, draw_vars, app_vars>>

\* main.run_simulator after a successful load: the three prompts are repeated
\* until each answer is accepted, then the categories are assigned
RunSimulator(brick_count, non_engine_count, engine_count) ==
    /\ last_call = "load_ydk_code"
    /\ outcome = "True"
    /\ 0 <= brick_count /\ brick_count <= get_deck_size(cards)
    /\ 0 <= non_engine_count /\ non_engine_count <= get_deck_size(cards) - brick_count
    /\ 0 <= engine_count
    /\ engine_count <= get_deck_size(cards) - brick_count - non_engine_count
    /\ SetDeck(run_simulator_assign_categories(Deck, brick_count, non_engine_count, engine_count))
    /\ outcome' = "None"
    /\ last_call' = "run_simulator"
    /\ UNCHANGED <<prob_vars, draw_vars, app_vars>>

Next ==
    \/ \E card_name \in Names, copies \in CopiesRange : AddCard(card_name, copies)
    \/ ClearDeck
    \/ \E card_ids \in MainDeckIds : LoadYdkCode(card_ids)
    \/ \E b \in TargetRange, ne \in TargetRange, e \in TargetRange : ApplyAndDraw(b, ne, e)
    \/ \E b \in TargetRange, ne \in TargetRange, e \in TargetRange : DrawManagerApplyAndDraw(b, ne, e)
    \/ \E b \in TargetRange, ne \in TargetRange, e \in TargetRange : RunSimulator(b, ne, e)

Spec == Init /\ [][Next]_vars
\* ------------------------------------------- the probability functions alone
\* the arguments are drawn from ArgRange, the deck stays empty
InitProb ==
    /\ cards = << >>
    /\ engine_cards = {}
    /\ non_engine_cards = {}
    /\ brick_cards = {}
    /\ last_call = "__init__"
    /\ outcome = "None"
    /\ prob_args \in ArgRange \X ArgRange \X ArgRange \X ArgRange
    /\ prob_result = Zero
    /\ ydk_code = << >>
    /\ hand_size_arg = HAND_SIZE
    /\ probs = << >>
    /\ hand = << >>
    /\ sixth = << >>
    /\ InitApp

\* hypergeometric_probability(population, successes_in_pop, draws, target_successes)
Hypergeometric ==
    /\ last_call = "__init__"
    /\ prob_result' = hypergeometric_probability(prob_args[1], prob_args[2],
                                                 prob_args[3], prob_args[4])
    /\ last_call' = "hypergeometric_probability"
    /\ UNCHANGED <<deck_vars, outcome, prob_args, draw_vars, app_vars>>

\* probability_at_least(population, successes_in_pop, draws, min_successes)
ProbabilityAtLeast ==
    /\ last_call = "__init__"
    /\ prob_result' = probability_at_least(prob_args[1], prob_args[2],
                                           prob_args[3], prob_args[4])
    /\ last_call' = "probability_at_least"
    /\ UNCHANGED <<deck_vars, outcome, prob_args, draw_vars, app_vars>>

\* run_simulator from "Draw hands" on, for a deck with the totals prob_args:
\* probs = calculate_probabilities(deck), then the brick analysis of
\* display_results; the totals are those of a deck, none negative and together
\* no more than the deck size
DisplayResults ==
    /\ last_call = "__init__"
    /\ \A i \in 1..4 : prob_args[i] >= 0
    /\ prob_args[2] + prob_args[3] + prob_args[4] <= prob_args[1]
    /\ LET result == Probabilities(prob_args[1], prob_args[3], prob_args[4], prob_args[2],
                                   HAND_SIZE)
       IN  /\ probs' = result
           /\ prob_result' = display_results_brick_by_turn1(result)
    /\ last_call' = "display_results"
    /\ UNCHANGED <<deck_vars, outcome, prob_args, ydk_code, hand_size_arg, hand, sixth, app_vars>>

NextProb ==
    \/ Hypergeometric
    \/ ProbabilityAtLeast
    \/ DisplayResults

SpecProb == InitProb /\ [][NextProb]_vars

\* ------------------------------- statistics and test hands of a loaded deck
\* probs = calculate_probabilities(deck, hand_size); an exception leaves probs
\* as it was
CalculateProbabilities(size) ==
    /\ last_call = "run_simulator"
    /\ LET result == calculate_probabilities(Deck, size)
           raised == RaisedIn(result.combinations)
       IN  /\ outcome' = raised
           /\ probs' = IF raised = "None" THEN result ELSE probs
    /\ hand_size_arg' = size
    /\ last_call' = "calculate_probabilities"
    /\ UNCHANGED <<deck_vars, prob_vars, ydk_code, hand, sixth, app_vars>>

\* ------------------------------------------ a caller that only reads the deck
\* the copies of the cards of a list taken out of the mapping, a name without
\* copies left going with them
RECURSIVE TakeOut(_, _, _)
TakeOut(d, list, i) ==
    IF i > Len(list) THEN d
    ELSE LET left == GetOr(d, list[i], 0) - 1
             rest == IF left > 0 THEN SetItem(d, list[i], left)
                     ELSE SelectSeq(d, LAMBDA entry : entry[1] # list[i])
         IN  TakeOut(rest, list, i + 1)

\* a draw that takes the cards of the hand out of deck.cards
DrawTestHandTakesCards(size) ==
    /\ last_call = "run_simulator"
    /\ hand' \in draw_test_hand(Deck, size)
    /\ cards' = TakeOut(cards, hand', 1)
    /\ hand_size_arg' = size
    /\ outcome' = "None"
    /\ last_call' = "draw_test_hand"
    /\ UNCHANGED <<engine_cards, non_engine_cards, brick_cards, prob_vars, ydk_code, probs,
                   sixth, app_vars>>

\* hand = draw_test_hand(deck, hand_size)
DrawTestHand(size) ==
    /\ last_call = "run_simulator"
    /\ hand' \in draw_test_hand(Deck, size)
    /\ hand_size_arg' = size
    /\ outcome' = "None"
    /\ last_call' = "draw_test_hand"
    /\ UNCHANGED <<deck_vars, prob_vars, ydk_code, probs, sixth, app_vars>>

\* sixth_card, sixth_category = simulate_6th_card(deck, hand)
Simulate6thCard ==
    /\ last_call = "draw_test_hand"
    /\ sixth' \in simulate_6th_card(Deck, hand)
    /\ outcome' = "None"
    /\ last_call' = "simulate_6th_card"
    /\ UNCHANGED <<deck_vars, prob_vars, ydk_code, hand_size_arg, probs, hand, app_vars>>

\* deck = YuGiOhDeck(), then load_ydk_code(deck, ydk_code)
LoadNewDeck(card_ids) ==
    /\ last_call = "__init__"
    /\ LoadYdkCode(card_ids)

\* one pass of run_simulator: a deck is loaded into a new YuGiOhDeck, the
\* categories are assigned, then the statistics and the hands are asked for
NextDraw ==
    \/ \E card_ids \in MainDeckIds : LoadNewDeck(card_ids)
    \/ \E b \in TargetRange, ne \in TargetRange, e \in TargetRange : RunSimulator(b, ne, e)
    \/ \E size \in HandSizes : CalculateProbabilities(size)
    \/ \E size \in HandSizes : DrawTestHand(size)
    \/ Simulate6thCard

SpecDraw == Init /\ [][NextDraw]_vars

\* ----------------------------------------------- the loader on a deck file
\* the lines of the file are drawn from YdkTexts, the deck is new
InitLoad ==
    /\ cards = << >>
    /\ engine_cards = {}
    /\ non_engine_cards = {}
    /\ brick_cards = {}
    /\ last_call = "__init__"
    /\ outcome = "None"
    /\ prob_args = << >>
    /\ prob_result = Zero
    /\ ydk_code \in YdkTexts
    /\ hand_size_arg = HAND_SIZE
    /\ probs = << >>
    /\ hand = << >>
    /\ sixth = << >>
    /\ InitApp

\* load_ydk_code(deck, ydk_code, use_api=False) on a plaintext file: the ids of
\* its main deck, then the counting and the adding of the cards
LoadYdkText ==
    /\ last_call = "__init__"
    /\ LoadYdkCode(PlaintextIds(ydk_code, 1, FALSE, << >>))

NextLoad == LoadYdkText

SpecLoad == InitLoad /\ [][NextLoad]_vars

\* ------------------------------------------- loading into a deck that is in use
\* deck files of a "#main" line and up to MAX_COPIES + 2 ids: one id can come
\* MAX_COPIES + 1 times after another id
ReloadTexts == {<<"#main">> \o card_ids : card_ids \in IdLists(MAX_COPIES + 2)}

\* load_ydk_code(deck, ydk_code, use_api=False) on a deck object that may hold
\* cards and categories of an earlier load
ReloadYdkCode(text) ==
    /\ ydk_code' = text
    /\ LET loaded == load_ydk_code(PlaintextIds(text, 1, FALSE, << >>))
       IN  /\ SetDeck(DeckState(loaded.cards, {}, {}, {}))
           /\ outcome' = loaded.result
    /\ last_call' = "load_ydk_code"
    /\ UNCHANGED <<prob_vars, hand_size_arg, probs, hand, sixth, app_vars>>

\* the categories are assigned as run_simulator assigns them, then the same
\* deck object is handed to the loader again
NextReload ==
    \/ \E text \in ReloadTexts : ReloadYdkCode(text)
    \/ \E b \in TargetRange, ne \in TargetRange, e \in TargetRange : RunSimulator(b, ne, e)

SpecReload == Init /\ [][NextReload]_vars

\* -------------------------------- the lists and the odds a caller asks for
\* deck_list = deck.get_deck_list()
GetDeckList ==
    /\ last_call = "run_simulator"
    /\ deck_list' = get_deck_list(cards)
    /\ outcome' = "None"
    /\ last_call' = "get_deck_list"
    /\ UNCHANGED <<deck_vars, prob_vars, draw_vars, odds, deck_loaded, draw_again_btn,
                   card_name_cache, requested, counts>>

\* random.shuffle(deck_list) on the list get_deck_list has returned
ShuffleDeckList ==
    /\ last_call = "get_deck_list"
    /\ deck_list' \in {[i \in 1..Len(deck_list) |-> deck_list[p[i]]] : p \in Orders(Len(deck_list))}
    /\ outcome' = "None"
    /\ last_call' = "random.shuffle"
    /\ UNCHANGED <<deck_vars, prob_vars, draw_vars, odds, deck_loaded, draw_again_btn,
                   card_name_cache, requested, counts>>

\* the deck is changed by add_card or by clear_deck while the caller holds the list
AddCardAfterList(card_name, copies) ==
    /\ last_call \in {"get_deck_list", "random.shuffle"}
    /\ AddCard(card_name, copies)

ClearDeckAfterList ==
    /\ last_call \in {"get_deck_list", "random.shuffle"}
    /\ ClearDeck

\* sixth_odds = calculate_6th_card_odds(deck, hand), as display_results asks for
\* them with the hand draw_test_hand has returned
Calculate6thCardOdds ==
    /\ last_call = "draw_test_hand"
    /\ odds' = calculate_6th_card_odds(Deck, hand)
    /\ outcome' = "None"
    /\ last_call' = "calculate_6th_card_odds"
    /\ UNCHANGED <<deck_vars, prob_vars, draw_vars, deck_list, deck_loaded, draw_again_btn,
                   card_name_cache, requested, counts>>

\* one pass of run_simulator with the calls of display_results, and a caller
\* that takes the deck list, shuffles it and then changes the deck
NextView ==
    \/ NextDraw
    \/ GetDeckList
    \/ ShuffleDeckList
    \/ \E card_name \in Names, copies \in CopiesRange : AddCardAfterList(card_name, copies)
    \/ ClearDeckAfterList
    \/ Calculate6thCardOdds

SpecView == Init /\ [][NextView]_vars

\* ------------------------------------- the assignment on decks of many names
\* decks of up to NumIds + 2 names, each with 1..MAX_COPIES copies, as a file
\* gives them whose ids first occur in ascending order
RECURSIVE PartitionDecks(_)
PartitionDecks(n) ==
    IF n = 0 THEN {<< >>}
    ELSE LET shorter == PartitionDecks(n - 1)
         IN  shorter \cup {Append(d, <<CardName(ToString(n)), copies>>) :
                              d \in {x \in shorter : Len(x) = n - 1},
                              copies \in 1..MAX_COPIES}

\* a deck has been loaded into the window and no count has been applied yet
InitPartition ==
    /\ cards \in PartitionDecks(NumIds + 2)
    /\ engine_cards = {}
    /\ non_engine_cards = {}
    /\ brick_cards = {}
    /\ last_call = "__init__"
    /\ outcome = "None"
    /\ prob_args = << >>
    /\ prob_result = Zero
    /\ ydk_code = << >>
    /\ hand_size_arg = HAND_SIZE
    /\ probs = << >>
    /\ hand = << >>
    /\ sixth = << >>
    /\ deck_list = << >>
    /\ odds = << >>
    /\ deck_loaded = TRUE
    /\ draw_again_btn = "disabled"
    /\ card_name_cache = << >>
    /\ requested = {}
    /\ counts = << >>

\* gui.py apply_and_draw, from the checks of the counts to the end of "Assign
\* categories", with counts that pass the checks
GuiAssignCategories(brick_count, non_engine_count, engine_count) ==
    /\ last_call = "__init__"
    /\ ValidTargets(cards, brick_count, non_engine_count, engine_count)
    /\ SetDeck(gui_assign_categories(Deck, brick_count, non_engine_count, engine_count))
    /\ counts' = <<brick_count, non_engine_count, engine_count>>
    /\ outcome' = "None"
    /\ last_call' = "gui.apply_and_draw"
    /\ UNCHANGED <<prob_vars, draw_vars, deck_list, odds, deck_loaded, draw_again_btn,
                   card_name_cache, requested>>

\* draw_manager.py apply_and_draw, from the checks of the counts to the end of
\* "Assign categories", with counts that pass the checks
DrawManagerAssignCategories(brick_count, non_engine_count, engine_count) ==
    /\ last_call = "__init__"
    /\ ValidTargets(cards, brick_count, non_engine_count, engine_count)
    /\ SetDeck(draw_manager_assign_categories(Deck, brick_count, non_engine_count, engine_count))
    /\ counts' = <<brick_count, non_engine_count, engine_count>>
    /\ outcome' = "None"
    /\ last_call' = "draw_manager.apply_and_draw"
    /\ UNCHANGED <<prob_vars, draw_vars, deck_list, odds, deck_loaded, draw_again_btn,
                   card_name_cache, requested>>

NextPartition ==
    \/ \E b \in TargetRange, ne \in TargetRange, e \in TargetRange : GuiAssignCategories(b, ne, e)
    \/ \E b \in TargetRange, ne \in TargetRange, e \in TargetRange :
          DrawManagerAssignCategories(b, ne, e)

SpecPartition == InitPartition /\ [][NextPartition]_vars

\* ------------------------------------------------------- the window (gui.py)
\* int(text): blanks around the number go, a sign may come first, and the rest
\* has to be digits; anything else raises ValueError
RECURSIVE DigitsValue(_, _)
DigitsValue(text, value) ==
    IF text = "" THEN value
    ELSE LET digit == CHOOSE n \in 0..9 : ToString(n) = SubSeq(text, 1, 1)
         IN  DigitsValue(SubSeq(text, 2, Len(text)), 10 * value + digit)

int(text) ==
    LET stripped == strip(text)
        signed == startswith(stripped, "-") \/ startswith(stripped, "+")
        digits == IF signed THEN SubSeq(stripped, 2, Len(stripped)) ELSE stripped
    IN  IF ~isdigit(digits) THEN [raised |-> "ValueError", value |-> 0]
        ELSE IF startswith(stripped, "-")
        THEN [raised |-> "None", value |-> 0 - DigitsValue(digits, 0)]
        ELSE [raised |-> "None", value |-> DigitsValue(digits, 0)]

\* int(entry.get() or 0): an empty entry counts as 0
EntryValue(text) == IF text = "" THEN [raised |-> "None", value |-> 0] ELSE int(text)

\* random.shuffle(full_deck), then full_deck[:5]: the shuffle puts the cards in
\* any order, so the first five are any five cards of the deck (all of them when
\* the deck has fewer): no name comes more often than it has copies. The
\* statistics count the cards of the hand and never look at their order, so of
\* the orders of the same five cards the hand is kept in one, the deck's
ShuffledHands(d) ==
    LET size == Min(5, get_deck_size(d))
        Position(k) == CHOOSE i \in 1..Len(d) : d[i][1] = k
    IN  {h \in [1..size -> KeySet(d)] :
            /\ \A k \in KeySet(d) : InHand(h, {k}) <= GetItem(d, k)
            /\ \A i \in 1..(size - 1) : Position(h[i]) <= Position(h[i + 1])}

\* gui.py display_statistics, "6TH CARD ODDS": the three percentages, or the
\* exception the division raises
gui_6th_card_odds(deck, current_hand) ==
    LET deck_size == get_deck_size(deck.cards)
        engine_count == CategoryTotal(deck.cards, deck.engine)
        non_engine_count == CategoryTotal(deck.cards, deck.non_engine)
        brick_count == CategoryTotal(deck.cards, deck.brick)
        remaining_deck == deck_size - 5
        engine_in_hand == InHand(current_hand, deck.engine)
        non_engine_in_hand == InHand(current_hand, deck.non_engine)
        brick_in_hand == InHand(current_hand, deck.brick)
        engine_remaining == engine_count - engine_in_hand
        non_engine_remaining == non_engine_count - non_engine_in_hand
        brick_remaining == brick_count - brick_in_hand
        Percent(x) == IF remaining_deck > 0
                      THEN FloatMul(Float(x, remaining_deck), Float(100, 1))
                      ELSE FloatMul(Float(0 - x, 0 - remaining_deck), Float(100, 1))
    IN  IF remaining_deck = 0
        THEN [raised |-> "ZeroDivisionError"]
        ELSE [raised |-> "None",
              remaining_deck |-> remaining_deck,
              engine_remaining |-> engine_remaining,
              non_engine_remaining |-> non_engine_remaining,
              brick_remaining |-> brick_remaining,
              engine_prob |-> Percent(engine_remaining),
              non_engine_prob |-> Percent(non_engine_remaining),
              brick_prob |-> Percent(brick_remaining)]

\* gui.py load_deck from "Count cards" on, for the main-deck ids of the file:
\* the lookup gives no name for the ids, so every card gets its default name
gui_load_deck(card_ids) ==
    IF card_ids = << >> THEN [result |-> "False", cards |-> << >>]
    ELSE AddCounted(CountCards(card_ids, 1, << >>), 1, << >>)

\* deck files of a "#main" line and ids in ascending order, each id up to
\* MAX_COPIES + 1 times and no more than HAND_SIZE + 1 ids in all: decks of
\* fewer than five, of five and of six cards, the file without ids, and files
\* with an id over the limit
RECURSIVE SortedIdLists(_)
SortedIdLists(n) ==
    IF n = 0 THEN {<< >>}
    ELSE {l \o Repeat(ToString(n), copies) : l \in SortedIdLists(n - 1),
                                              copies \in 0..(MAX_COPIES + 1)}
GuiTexts == {<<"#main">> \o l : l \in {x \in SortedIdLists(NumIds) : Len(x) <= HAND_SIZE + 1}}

\* what the three entries can hold when the button is clicked: nothing, a
\* number with blanks around it, a negative number, and no number
EntryTexts == {"", " 1 ", "-2", "x"}

\* load_deck(ydk_code), as browse_file calls it with the text of a file
GuiLoadDeck(text) ==
    /\ LET loaded == gui_load_deck(PlaintextIds(text, 1, FALSE, << >>))
       IN  /\ SetDeck(DeckState(loaded.cards, {}, {}, {}))
           /\ deck_loaded' = IF loaded.result = "True" THEN TRUE ELSE deck_loaded
           /\ outcome' = IF loaded.result = "True" THEN "None" ELSE "showerror"
    /\ counts' = << >>
    /\ last_call' = "gui.load_deck"
    /\ UNCHANGED <<prob_vars, draw_vars, deck_list, odds, draw_again_btn,
                   card_name_cache, requested>>

\* draw_hand(): the hand, then display_statistics with its 6th-card odds; the
\* sixth card and the percentages are shown and not kept
DrawHandAndDisplay(deck) ==
    /\ hand' \in ShuffledHands(deck.cards)
    /\ LET shown == gui_6th_card_odds(deck, hand')
       IN  outcome' = shown.raised

\* apply_and_draw() up to the draw, for the three entries holding brick_text,
\* non_engine_text and engine_text: the message box it shows and the deck it
\* leaves; counts are the numbers it ran the partition with
apply_and_draw(deck, loaded, brick_text, non_engine_text, engine_text) ==
    LET brick_count == EntryValue(brick_text)
        non_engine_count == EntryValue(non_engine_text)
        engine_count == EntryValue(engine_text)
        deck_size == get_deck_size(deck.cards)
        total == brick_count.value + non_engine_count.value + engine_count.value
        Refused(report) == [report |-> report, deck |-> deck, counts |-> << >>]
    IN  IF ~loaded THEN Refused("showwarning")
        ELSE IF \/ brick_count.raised # "None"
                \/ non_engine_count.raised # "None"
                \/ engine_count.raised # "None"
        THEN Refused("showerror")
        ELSE IF total > deck_size THEN Refused("showerror")
        ELSE IF brick_count.value < 0 \/ non_engine_count.value < 0 \/ engine_count.value < 0
        THEN Refused("showerror")
        ELSE [report |-> "None",
              deck |-> gui_assign_categories(deck, brick_count.value, non_engine_count.value,
                                             engine_count.value),
              counts |-> <<brick_count.value, non_engine_count.value, engine_count.value>>]

\* draw_manager.py apply_and_draw(app) up to the draw: the same checks in the
\* same order, any exception of the conversion giving the error box
draw_manager_apply_and_draw(deck, loaded, brick_text, non_engine_text, engine_text) ==
    LET brick_count == EntryValue(brick_text)
        non_engine_count == EntryValue(non_engine_text)
        engine_count == EntryValue(engine_text)
        deck_size == get_deck_size(deck.cards)
        total == brick_count.value + non_engine_count.value + engine_count.value
        Refused(report) == [report |-> report, deck |-> deck, counts |-> << >>]
    IN  IF ~loaded THEN Refused("showwarning")
        ELSE IF \/ brick_count.raised # "None"
                \/ non_engine_count.raised # "None"
                \/ engine_count.raised # "None"
        THEN Refused("showerror")
        ELSE IF total > deck_size THEN Refused("showerror")
        ELSE IF brick_count.value < 0 \/ non_engine_count.value < 0 \/ engine_count.value < 0
        THEN Refused("showerror")
        ELSE [report |-> "None",
              deck |-> draw_manager_assign_categories(deck, brick_count.value,
                                                     non_engine_count.value,
                                                     engine_count.value),
              counts |-> <<brick_count.value, non_engine_count.value, engine_count.value>>]

\* the click on "Apply & Draw Hand": after a message box nothing more happens,
\* otherwise "Draw Again" is enabled and the hand is drawn
GuiApplyAndDraw(brick_text, non_engine_text, engine_text) ==
    LET applied == apply_and_draw(Deck, deck_loaded, brick_text, non_engine_text, engine_text)
    IN  /\ last_call' = "gui.apply_and_draw"
        /\ SetDeck(applied.deck)
        /\ counts' = applied.counts
        /\ IF applied.report # "None"
           THEN /\ outcome' = applied.report
                /\ UNCHANGED <<hand, draw_again_btn>>
           ELSE /\ draw_again_btn' = "normal"
                /\ DrawHandAndDisplay(applied.deck)
        /\ UNCHANGED <<prob_vars, ydk_code, hand_size_arg, probs, sixth, deck_list, odds,
                       deck_loaded, card_name_cache, requested>>

\* draw_again(): the click on "Draw Again", which apply_and_draw has enabled
GuiDrawAgain ==
    /\ draw_again_btn = "normal"
    /\ DrawHandAndDisplay(Deck)
    /\ counts' = << >>
    /\ last_call' = "gui.draw_again"
    /\ UNCHANGED <<deck_vars, prob_vars, ydk_code, hand_size_arg, probs, sixth, deck_list, odds,
                   deck_loaded, draw_again_btn, card_name_cache, requested>>

NextGui ==
    \/ \E text \in GuiTexts : GuiLoadDeck(text)
    \/ \E brick_text \in EntryTexts, non_engine_text \in EntryTexts, engine_text \in EntryTexts :
          GuiApplyAndDraw(brick_text, non_engine_text, engine_text)
    \/ GuiDrawAgain

SpecGui == Init /\ [][NextGui]_vars

\* ------------------------------------- the prompts of run_simulator (main.py)
\* 0 <= count <= high, the test each prompt makes on the number entered
InRangeNoLow(value, low, high) == value <= high

InRange(value, low, high) == low <= value /\ value <= high

\* the calls of a session at the command line, and those of the window: a run
\* of the program is one or the other
CliCalls == {"__init__", "load_ydk_code", "input", "run_simulator"}

GuiCalls == {"__init__", "gui.load_deck", "gui.apply_and_draw", "gui.draw_again"}

\* the deck prompt of the main loop: a new deck is loaded from the file; on a
\* failure the loop continues with the deck prompt
CliLoadYdkCode(text) ==
    /\ \/ last_call = "__init__"
       \/ last_call = "load_ydk_code" /\ outcome # "True"
       \/ last_call = "run_simulator"
    /\ ydk_code' = text
    /\ LET loaded == load_ydk_code(PlaintextIds(text, 1, FALSE, << >>))
       IN  /\ SetDeck(DeckState(loaded.cards, {}, {}, {}))
           /\ outcome' = loaded.result
    /\ counts' = << >>
    /\ last_call' = "load_ydk_code"
    /\ UNCHANGED <<prob_vars, hand_size_arg, probs, hand, sixth, deck_list, odds, deck_loaded,
                   draw_again_btn, card_name_cache, requested>>

\* one answer to the prompt for the next count (brick, then non-engine, then
\* engine): no number or a number out of range prints a message and the prompt
\* comes again; the third accepted count runs the assignment
CliInput(text) ==
    /\ \/ last_call = "load_ydk_code" /\ outcome = "True"
       \/ last_call = "input" /\ Len(counts) < 3
    /\ LET entered == int(strip(text))
           deck_size == get_deck_size(cards)
           brick_count == IF Len(counts) >= 1 THEN counts[1] ELSE 0
           non_engine_count == IF Len(counts) >= 2 THEN counts[2] ELSE 0
           accepted == /\ entered.raised = "None"
                       /\ InRange(entered.value, 0, deck_size - brick_count - non_engine_count)
       IN  IF ~accepted
           THEN /\ outcome' = IF entered.raised = "None" THEN "Enter a number between"
                              ELSE "Enter a valid number."
                /\ last_call' = "input"
                /\ UNCHANGED <<deck_vars, counts>>
           ELSE IF Len(counts) < 2
           THEN /\ counts' = Append(counts, entered.value)
                /\ outcome' = "None"
                /\ last_call' = "input"
                /\ UNCHANGED deck_vars
           ELSE /\ counts' = Append(counts, entered.value)
                /\ SetDeck(run_simulator_assign_categories(Deck, brick_count, non_engine_count,
                                                           entered.value))
                /\ outcome' = "None"
                /\ last_call' = "run_simulator"
    /\ UNCHANGED <<prob_vars, draw_vars, deck_list, odds, deck_loaded, draw_again_btn,
                   card_name_cache, requested>>

\* what is typed at a prompt: numbers, one with blanks around it, a negative
\* number, and no number
PromptTexts == {"0", " 1 ", "2", "-1", "x"}

NextCli ==
    \/ \E text \in GuiTexts : CliLoadYdkCode(text)
    \/ \E text \in PromptTexts : CliInput(text)

\* the callers of the partition: a session at the command line or the window
NextCallers ==
    \/ last_call \in GuiCalls /\ NextGui
    \/ NextCli

SpecCallers == Init /\ [][NextCallers]_vars

\* --------------------------------------- the card-name cache (main.py 48-124)
\* the name the lookup service has for an id
ServiceName(card_id) == "Name_" \o card_id

\* fetch_card_name(card_id), the single request answered with found true or
\* false (no data, or an exception): the name it returns, the cache afterwards
\* and the ids it asked the service for
fetch_card_name(cache, card_id, found) ==
    IF card_id \in KeySet(cache)
    THEN [name |-> GetItem(cache, card_id), cache |-> cache, requested |-> {}]
    ELSE IF found
    THEN [name |-> ServiceName(card_id),
          cache |-> SetItem(cache, card_id, ServiceName(card_id)),
          requested |-> {card_id}]
    ELSE [name |-> "Unknown_" \o card_id, cache |-> cache, requested |-> {card_id}]

\* the loop "for card in data['data']" over the ids the service has data for,
\* in the order asked: each name goes into the cache and into the result
RECURSIVE CacheBatch(_, _, _, _)
CacheBatch(state, uncached_ids, i, data) ==
    IF i > Len(uncached_ids) THEN state
    ELSE CacheBatch(IF uncached_ids[i] \in data
                    THEN [cache |-> SetItem(state.cache, uncached_ids[i],
                                            ServiceName(uncached_ids[i])),
                          result |-> SetItem(state.result, uncached_ids[i],
                                             ServiceName(uncached_ids[i])),
                          requested |-> state.requested]
                    ELSE state,
                    uncached_ids, i + 1, data)

\* the loop of the except branch: every uncached id not yet in the result is
\* fetched by itself, and what fetch_card_name returns is put into the result
\* and into the cache
RECURSIVE Fallback(_, _, _, _)
Fallback(state, uncached_ids, i, found) ==
    IF i > Len(uncached_ids) THEN state
    ELSE IF uncached_ids[i] \in KeySet(state.result)
    THEN Fallback(state, uncached_ids, i + 1, found)
    ELSE LET fetched == fetch_card_name(state.cache, uncached_ids[i], uncached_ids[i] \in found)
         IN  Fallback([cache |-> SetItem(fetched.cache, uncached_ids[i], fetched.name),
                       result |-> SetItem(state.result, uncached_ids[i], fetched.name),
                       requested |-> state.requested \cup fetched.requested],
                      uncached_ids, i + 1, found)

\* result[cid] = _card_name_cache[cid] for the ids of the list that are cached
RECURSIVE FromCache(_, _, _, _)
FromCache(cache, card_ids, i, result) ==
    IF i > Len(card_ids) THEN result
    ELSE FromCache(cache, card_ids, i + 1,
                   IF card_ids[i] \in KeySet(cache)
                   THEN SetItem(result, card_ids[i], GetItem(cache, card_ids[i]))
                   ELSE result)

\* fetch_multiple_card_names(card_ids): the batch request gives data for the
\* ids in data and then fails or not; the single requests of the fallback find
\* the ids in found
fetch_multiple_card_names(cache, card_ids, data, batch_fails, found) ==
    LET uncached_ids == SelectSeq(card_ids, LAMBDA cid : cid \notin KeySet(cache))
        cached == [cache |-> cache, result |-> FromCache(cache, card_ids, 1, << >>),
                   requested |-> {}]
        asked == [cached EXCEPT !.requested = {uncached_ids[i] : i \in 1..Len(uncached_ids)}]
        batch == CacheBatch(asked, uncached_ids, 1, data)
    IN  IF uncached_ids = << >> THEN cached
        ELSE IF ~batch_fails THEN batch
        ELSE Fallback(batch, uncached_ids, 1, found)

FetchCardName(card_id, found) ==
    /\ LET fetched == fetch_card_name(card_name_cache, card_id, found)
       IN  /\ card_name_cache' = fetched.cache
           /\ requested' = fetched.requested
           /\ outcome' = fetched.name
    /\ last_call' = "fetch_card_name"
    /\ UNCHANGED <<deck_vars, prob_vars, draw_vars, deck_list, odds, deck_loaded,
                   draw_again_btn, counts>>

FetchMultipleCardNames(card_ids, data, batch_fails, found) ==
    /\ LET fetched == fetch_multiple_card_names(card_name_cache, card_ids, data, batch_fails,
                                                found)
       IN  /\ card_name_cache' = fetched.cache
           /\ requested' = fetched.requested
           /\ outcome' = fetched.result
    /\ last_call' = "fetch_multiple_card_names"
    /\ UNCHANGED <<deck_vars, prob_vars, draw_vars, deck_list, odds, deck_loaded,
                   draw_again_btn, counts>>

\* the lists of ids a deck hands to the lookup: list(set(card_ids)), each id once
IdSets == {l \in IdLists(NumIds) : \A i, j \in 1..Len(l) : l[i] = l[j] => i = j}

NextCache ==
    \/ \E card_id \in Ids, found \in BOOLEAN : FetchCardName(card_id, found)
    \/ \E card_ids \in IdSets, data \in SUBSET Ids, batch_fails \in BOOLEAN, found \in SUBSET Ids :
          FetchMultipleCardNames(card_ids, data, batch_fails, found)

SpecCache == Init /\ [][NextCache]_vars

\* ------------------------------------------------------------------ claims
CategoryCalls == {"gui.apply_and_draw", "draw_manager.apply_and_draw", "run_simulator"}
Categories(deck) == <<deck.engine, deck.non_engine, deck.brick>>
PairwiseDisjoint(deck) ==
    /\ deck.engine \cap deck.non_engine = {}
    /\ deck.engine \cap deck.brick = {}
    /\ deck.non_engine \cap deck.brick = {}
\* every triple of targets the callers let through on the deck as it is
ForAllTargets(P(_, _, _)) ==
    \A b \in TargetRange, ne \in TargetRange, e \in TargetRange :
        ValidTargets(cards, b, ne, e) => P(b, ne, e)

\* C1: after any assignment of categories, by any of the three implementations,
\* no card name is in two of the engine, non-engine and brick sets.
C1_PairwiseDisjoint == PairwiseDisjoint(Deck)

\* an assignment has put one card into the brick set and another into the engine set
C1_Witness ==
    /\ last_call \in CategoryCalls
    /\ brick_cards # {}
    /\ engine_cards # {}

\* C2: for the same deck and the same three targets the three implementations
\* (gui.py, draw_manager.py, run_simulator) produce the same three sets.
C2_ImplementationsAgree ==
    ForAllTargets(LAMBDA b, ne, e :
        /\ Categories(gui_assign_categories(Deck, b, ne, e))
             = Categories(draw_manager_assign_categories(Deck, b, ne, e))
        /\ Categories(gui_assign_categories(Deck, b, ne, e))
             = Categories(run_simulator_assign_categories(Deck, b, ne, e)))

\* C3: assigning twice with the same targets on an unchanged deck gives the
\* same three sets both times, whatever the sets held before the first call.
C3_Idempotent ==
    ForAllTargets(LAMBDA b, ne, e :
        LET once == gui_assign_categories(Deck, b, ne, e)
            twice == gui_assign_categories(once, b, ne, e)
            dm_once == draw_manager_assign_categories(Deck, b, ne, e)
            dm_twice == draw_manager_assign_categories(dm_once, b, ne, e)
            cli_once == run_simulator_assign_categories(Deck, b, ne, e)
            cli_twice == run_simulator_assign_categories(cli_once, b, ne, e)
        IN  /\ Categories(twice) = Categories(once)
            /\ Categories(dm_twice) = Categories(dm_once)
            /\ Categories(cli_twice) = Categories(cli_once))

\* the sets are left over from an earlier assignment on a deck that has changed
\* since, and the next assignment with some targets fills a set
C3_Witness ==
    /\ last_call = "add_card"
    /\ brick_cards # {}
    /\ \E b \in TargetRange, ne \in TargetRange, e \in TargetRange :
          /\ ValidTargets(cards, b, ne, e)
          /\ Categories(gui_assign_categories(Deck, b, ne, e)) # Categories(Deck)
          /\ gui_assign_categories(Deck, b, ne, e).non_engine # {}

\* C4: no card is in two categories and the copies of the cards of a category
\* never add up to more than the category's target.
C4_NeverOvershoots ==
    ForAllTargets(LAMBDA b, ne, e :
        \A deck \in {gui_assign_categories(Deck, b, ne, e),
                     draw_manager_assign_categories(Deck, b, ne, e),
                     run_simulator_assign_categories(Deck, b, ne, e)} :
            /\ PairwiseDisjoint(deck)
            /\ CategoryTotal(deck.cards, deck.brick) <= b
            /\ CategoryTotal(deck.cards, deck.non_engine) <= ne
            /\ CategoryTotal(deck.cards, deck.engine) <= e)

\* an assignment has run, and some targets leave the brick total strictly
\* below the brick target
C4_Witness ==
    /\ last_call \in CategoryCalls
    /\ \E b \in TargetRange, ne \in TargetRange, e \in TargetRange :
          /\ ValidTargets(cards, b, ne, e)
          /\ LET deck == gui_assign_categories(Deck, b, ne, e)
             IN  /\ CategoryTotal(deck.cards, deck.brick) < b
                 /\ deck.non_engine # {}

\* C5: in every reachable state the three category sets hold only names that
\* are keys of deck.cards, so the three totals are defined and together do not
\* exceed the deck size.
C5_CategoriesInDeck ==
    /\ engine_cards \subseteq KeySet(cards)
    /\ non_engine_cards \subseteq KeySet(cards)
    /\ brick_cards \subseteq KeySet(cards)
    /\ CategoryTotal(cards, engine_cards) + CategoryTotal(cards, non_engine_cards)
         + CategoryTotal(cards, brick_cards) <= get_deck_size(cards)

\* categories assigned earlier are still in place after a later add_card
C5_Witness ==
    /\ last_call = "add_card"
    /\ outcome = "None"
    /\ brick_cards # {}
    /\ engine_cards # {}

\* what add_card(card_name, copies) has to make of the mapping d
AddCardContract(d, card_name, copies, raised, after) ==
    IF copies < 1 \/ copies > MAX_COPIES
    THEN raised = "ValueError" /\ after = d
    ELSE /\ raised = "None"
         /\ KeySet(after) = KeySet(d) \cup {card_name}
         /\ GetItem(after, card_name) = copies
         /\ \A k \in KeySet(d) \ {card_name} : GetItem(after, k) = GetItem(d, k)
         /\ Len(after) = Cardinality(KeySet(after))

\* C6: add_card raises ValueError exactly when copies < 1 or copies > MAX_COPIES
\* and then leaves the mapping as it was; otherwise it sets the count of the
\* name to copies, overwriting an earlier count, and changes no other entry;
\* in both cases it changes no category set.
C6_AddCard ==
    /\ [](\A card_name \in Names, copies \in CopiesRange :
            LET added == add_card(cards, card_name, copies)
            IN  AddCardContract(cards, card_name, copies, added.raised, added.cards))
    /\ [][last_call' = "add_card" =>
            /\ engine_cards' = engine_cards
            /\ non_engine_cards' = non_engine_cards
            /\ brick_cards' = brick_cards
            /\ \E card_name \in Names, copies \in CopiesRange :
                  AddCardContract(cards, card_name, copies, outcome', cards')]_vars

\* add_card has failed on a deck that has cards and categories
C6_Witness ==
    /\ last_call = "add_card"
    /\ outcome = "ValueError"
    /\ Len(cards) >= 2
    /\ brick_cards # {}

\* C7: every entry of deck.cards has a copy count in 1..MAX_COPIES.
C7_CopiesInRange ==
    \A i \in 1..Len(cards) : cards[i][2] >= 1 /\ cards[i][2] <= MAX_COPIES

\* a failing add_card has left a deck of two cards behind
C7_Witness ==
    /\ last_call = "add_card"
    /\ outcome = "ValueError"
    /\ Len(cards) >= 2

\* C8: after clear_deck the deck size is 0 and the three category sets are
\* empty, whatever the state before.
C8_ClearDeck ==
    /\ last_call = "clear_deck" =>
          /\ cards = << >>
          /\ get_deck_size(cards) = 0
          /\ engine_cards = {} /\ non_engine_cards = {} /\ brick_cards = {}
    /\ LET deck == clear_deck(Deck)
       IN  /\ get_deck_size(deck.cards) = 0
           /\ deck.engine = {} /\ deck.non_engine = {} /\ deck.brick = {}

\* clear_deck has run
C8_Witness ==
    /\ last_call = "clear_deck"
    /\ cards = << >>

\* number of entries of the list equal to x
Count(list, x) == Cardinality({i \in 1..Len(list) : list[i] = x})
\* position of a name in the insertion order of the mapping
Position(d, k) == CHOOSE i \in 1..Len(d) : d[i][1] = k

\* C9: in get_deck_list every name occurs as often as its copy count, names
\* follow the insertion order of the mapping (so the copies of one name are
\* adjacent), and the length is get_deck_size.
C9_DeckList ==
    LET deck == get_deck_list(cards)
    IN  /\ \A k \in Names : Count(deck, k) = GetOr(cards, k, 0)
        /\ \A i \in 1..Len(deck) : deck[i] \in KeySet(cards)
        /\ \A i \in 1..Len(deck), j \in 1..Len(deck) :
              i < j => Position(cards, deck[i]) <= Position(cards, deck[j])
        /\ Len(deck) = get_deck_size(cards)

\* a deck of two cards, the first of them with several copies
C9_Witness ==
    /\ Len(cards) >= 2
    /\ cards[1][2] >= 2
    /\ Len(get_deck_list(cards)) >= 3

\* the binomial coefficient as the number of k-element subsets of an n-element set
Binomial(n, k) == Cardinality({S \in SUBSET (1..n) : Cardinality(S) = k})

\* C10: hypergeometric_probability(N, K, n, k) is C(K,k)*C(N-K,n-k)/C(N,n) when
\* 0 <= k <= min(K, n) and n-k <= N-K, and 0.0 in every other case.
C10_Hypergeometric ==
    last_call = "hypergeometric_probability" =>
        LET N == prob_args[1]
            K == prob_args[2]
            n == prob_args[3]
            k == prob_args[4]
        IN  IF 0 <= k /\ k <= K /\ k <= n /\ n - k <= N - K
            THEN /\ prob_result.raised = "None"
                 /\ prob_result.den > 0
                 /\ prob_result.num * Binomial(N, n)
                      = prob_result.den * Binomial(K, k) * Binomial(N - K, n - k)
            ELSE prob_result = Zero

\* a draw that is possible but not certain: 0 < probability < 1
C10_Witness ==
    /\ last_call = "hypergeometric_probability"
    /\ prob_args = <<4, 2, 3, 1>>
    /\ prob_result.num > 0
    /\ prob_result.num < prob_result.den

\* C11: hypergeometric_probability never raises and never divides by zero; when
\* the population is smaller than the draw (N < n), when K > N and when an
\* argument is negative it returns 0.0.
C11_NeverFails ==
    last_call = "hypergeometric_probability" =>
        LET N == prob_args[1]
            K == prob_args[2]
            n == prob_args[3]
            k == prob_args[4]
        IN  /\ prob_result.raised = "None"
            /\ prob_result.den > 0
            /\ (N < n \/ K > N \/ N < 0 \/ K < 0 \/ n < 0 \/ k < 0) => prob_result = Zero

\* a call that passes the first test with more successes than the population
\* has cards: only the second test keeps comb from a negative argument
C11_Witness ==
    /\ last_call = "hypergeometric_probability"
    /\ prob_args = <<2, 3, 1, 1>>
    /\ prob_result = Zero

\* the sum of the floats table[lo], ..., table[hi], exact
RECURSIVE SumTable(_, _, _)
SumTable(table, lo, hi) ==
    IF lo > hi THEN Zero ELSE FloatAdd(table[hi], SumTable(table, lo, hi - 1))

\* the arguments a deck can give: 0 <= K <= N and 0 <= n <= N
ValidArgs(N, K, n) == 0 <= K /\ K <= N /\ 0 <= n /\ n <= N

\* C12: for 0 <= K <= N and 0 <= n <= N the values hypergeometric_probability(N, K, n, k),
\* k = 0..n, sum to 1, and so do the entries 0..hand_size of engine_probs in
\* the dict calculate_probabilities builds.
C12_SumsToOne ==
    LET N == prob_args[1]
        K == prob_args[2]
        n == prob_args[3]
    IN  ValidArgs(N, K, n) =>
            /\ SumTable([k \in 0..n |-> hypergeometric_probability(N, K, n, k)], 0, n) = One
            /\ SumTable(Probabilities(N, K, 0, 0, n).engine_probs, 0, n) = One

\* a call with a result strictly between 0 and 1, for arguments whose sum has
\* three terms that are not 0
C12_Witness ==
    /\ last_call = "hypergeometric_probability"
    /\ prob_args = <<4, 2, 3, 2>>
    /\ ValidArgs(prob_args[1], prob_args[2], prob_args[3])
    /\ prob_result.num > 0
    /\ prob_result.num < prob_result.den

RECURSIVE SumOver(_, _)
SumOver(f, S) ==
    IF S = {} THEN Zero
    ELSE LET k == CHOOSE x \in S : TRUE
         IN  FloatAdd(f[k], SumOver(f, S \ {k}))

\* C14: probability_at_least(N, K, n, k_min) is the sum of
\* hypergeometric_probability(N, K, n, k) over k_min <= k <= min(K, n), and 0.0
\* when no k is in that range.
C14_AtLeastIsSum ==
    last_call = "probability_at_least" =>
        LET N == prob_args[1]
            K == prob_args[2]
            n == prob_args[3]
            k_min == prob_args[4]
            range == {k \in ArgRange : k_min <= k /\ k <= K /\ k <= n}
        IN  /\ prob_result
                 = SumOver([k \in range |-> hypergeometric_probability(N, K, n, k)], range)
            /\ (k_min > K \/ k_min > n) => prob_result = Zero

\* a sum of two terms that are not 0
C14_Witness ==
    /\ last_call = "probability_at_least"
    /\ prob_args = <<4, 2, 3, 1>>
    /\ prob_result.num > 0
    /\ hypergeometric_probability(4, 2, 3, 1).num > 0
    /\ hypergeometric_probability(4, 2, 3, 2).num > 0

\* cell coordinates: those of the table and one below and above them
CellRange == (-1)..(HAND_SIZE + 1)

\* C15: a cell (e, ne) is in the joint table exactly when e >= 0, ne >= 0,
\* e + ne <= hand_size, e <= engine_count, ne <= non_engine_count and
\* hand_size - e - ne <= N - engine_count - non_engine_count; a cell that is there
\* holds C(engine_count,e)*C(non_engine_count,ne)*C(other_count,hand_size-e-ne)/C(N,hand_size),
\* which is greater than 0; no cell is stored as zero and the table is built
\* without a division by C(N,hand_size) = 0, in calculate_probabilities and in
\* the matrix of the GUI.
C15_JointTable ==
    LET N == get_deck_size(cards)
        E == CategoryTotal(cards, engine_cards)
        NE == CategoryTotal(cards, non_engine_cards)
        h == hand_size_arg
    IN  last_call = "calculate_probabilities" =>
            /\ outcome = "None"
            /\ \A e \in CellRange, ne \in CellRange :
                  LET present == <<e, ne>> \in DOMAIN probs.combinations
                      cell == probs.combinations[<<e, ne>>]
                      gui == GuiMatrixCell(Deck, e, ne)
                  IN  /\ present <=> /\ e >= 0 /\ ne >= 0 /\ e + ne <= h
                                      /\ e <= E /\ ne <= NE
                                      /\ h - e - ne <= N - E - NE
                      /\ present =>
                            /\ cell.raised = "None"
                            /\ cell.num > 0
                            /\ Binomial(N, h) > 0
                            /\ cell.num * Binomial(N, h)
                                 = cell.den * Binomial(E, e) * Binomial(NE, ne)
                                     * Binomial(N - E - NE, h - e - ne)
                      /\ h = HAND_SIZE =>
                            /\ gui.prob.raised = "None"
                            /\ gui.shown <=> present
                            /\ gui.shown => gui.prob = cell

\* a table with cells that are there and cells inside the triangle that are not
C15_Witness ==
    /\ last_call = "calculate_probabilities"
    /\ outcome = "None"
    /\ hand_size_arg = 3
    /\ <<1, 0>> \in DOMAIN probs.combinations
    /\ <<2, 0>> \in DOMAIN probs.combinations
    /\ <<0, 0>> \notin DOMAIN probs.combinations
    /\ probs.combinations[<<1, 0>>].num < probs.combinations[<<1, 0>>].den

\* C16: the probabilities of the cells of the joint table sum to 1 whenever
\* 0 <= hand_size <= N (engine_count + non_engine_count <= N holds for every deck).
C16_JointTableSumsToOne ==
    (/\ last_call = "calculate_probabilities"
     /\ outcome = "None"
     /\ 0 <= hand_size_arg
     /\ hand_size_arg <= get_deck_size(cards)) =>
        SumOver(probs.combinations, DOMAIN probs.combinations) = One

\* a table of at least three cells
C16_Witness ==
    /\ last_call = "calculate_probabilities"
    /\ outcome = "None"
    /\ hand_size_arg = 2
    /\ get_deck_size(cards) = 4
    /\ Cardinality(DOMAIN probs.combinations) >= 3

\* C18: draw_test_hand(deck, hand_size) returns min(hand_size, deck size) cards,
\* and no name occurs in the hand more often than the deck has copies of it.
C18_DrawTestHand ==
    (last_call = "draw_test_hand" /\ hand_size_arg >= 0) =>
        /\ Len(hand) = Min(hand_size_arg, get_deck_size(cards))
        /\ \A i \in 1..Len(hand) : hand[i] \in KeySet(cards)
        /\ \A k \in KeySet(cards) : Count(hand, k) <= GetItem(cards, k)

\* a deck of three cards drawn with hand_size 5 gives three cards
C18_Witness ==
    /\ last_call = "draw_test_hand"
    /\ hand_size_arg = 5
    /\ get_deck_size(cards) = 3
    /\ Len(cards) = 2
    /\ Len(hand) = 3

\* the copies of a name that are left when each card of the hand has taken one
\* copy of its name out of the deck
CopiesLeft(k) == Max(GetOr(cards, k, 0) - Count(hand, k), 0)

\* C19: simulate_6th_card returns ("No cards left", "none") exactly when the
\* hand, taken out of the deck list one copy per card, leaves nothing; otherwise
\* the card returned is one of the copies left, and the category is ENGINE,
\* NON-ENGINE, BRICK or UNCATEGORIZED after the set that holds the card.
C19_SixthCard ==
    last_call = "simulate_6th_card" =>
        /\ sixth = <<"No cards left", "none">> <=> \A k \in KeySet(cards) : CopiesLeft(k) = 0
        /\ sixth # <<"No cards left", "none">> =>
              /\ sixth[1] \in KeySet(cards)
              /\ CopiesLeft(sixth[1]) > 0
              /\ sixth[1] \in engine_cards => sixth[2] = "ENGINE"
              /\ sixth[1] \in non_engine_cards => sixth[2] = "NON-ENGINE"
              /\ sixth[1] \in brick_cards => sixth[2] = "BRICK"
              /\ sixth[1] \notin engine_cards \cup non_engine_cards \cup brick_cards
                    => sixth[2] = "UNCATEGORIZED"

\* the hand holds every copy of one name, and the sixth card is a brick
C19_Witness ==
    /\ last_call = "simulate_6th_card"
    /\ hand # << >>
    /\ \E k \in KeySet(cards) : Count(hand, k) = GetItem(cards, k)
    /\ sixth[2] = "BRICK"

\* a float that is a probability: no exception, and between 0 and 1
InUnit(x) == x.raised = "None" /\ x.den > 0 /\ 0 <= x.num /\ x.num <= x.den
\* a float that is a percentage between 0 and 100
InPercent(x) == x.raised = "None" /\ x.den > 0 /\ 0 <= x.num /\ x.num <= 100 * x.den

CountedLines ==
    {i \in 1..Len(ydk_code) :
        /\ isdigit(strip(ydk_code[i]))
        /\ \E j \in 1..(i - 1) :
              /\ strip(ydk_code[j]) = "#main"
              /\ \A m \in (j + 1)..(i - 1) :
                    strip(ydk_code[m]) \notin {"#extra", "!side", "#side"}}
\* the ids a file can hold, and how often the counted lines hold one of them
FileIds == {strip(l) : l \in {t \in LineTexts : isdigit(strip(t))}}
Occurrences(card_id) == Cardinality({i \in CountedLines : strip(ydk_code[i]) = card_id})
\* the deck is the counted ids: one card Card_<id> for each, with its
\* occurrences as copies, and as many cards as counted lines
DeckIsCountedLines ==
    /\ KeySet(cards) = {CardName(card_id) : card_id \in {c \in FileIds : Occurrences(c) > 0}}
    /\ \A card_id \in FileIds :
          Occurrences(card_id) > 0 => GetItem(cards, CardName(card_id)) = Occurrences(card_id)
    /\ get_deck_size(cards) = Cardinality(CountedLines)

\* C20 as stated: when no id is counted more than 3 times, load_ydk_code on a
\* plaintext file returns True and the deck is the counted ids.
C20_AsStated ==
    (last_call = "load_ydk_code" /\ \A card_id \in FileIds : Occurrences(card_id) <= MAX_COPIES) =>
        /\ outcome = "True"
        /\ DeckIsCountedLines

\* C20, amended: when no id is counted more than 3 times and at least one line
\* is counted, load_ydk_code on a plaintext file returns True and the deck is
\* the counted ids, each id as card Card_<id> with its occurrences as copies;
\* when no line is counted it returns False and the deck is empty.
C20_LoadPlaintext ==
    (last_call = "load_ydk_code" /\ \A card_id \in FileIds : Occurrences(card_id) <= MAX_COPIES) =>
        IF CountedLines = {}
        THEN outcome = "False" /\ cards = << >>
        ELSE outcome = "True" /\ DeckIsCountedLines

\* a file with ids before #main, in the main deck after a comment line, and
\* after #extra: the two of the main deck are loaded
C20_Witness ==
    /\ last_call = "load_ydk_code"
    /\ ydk_code = <<"2", "#main", "#created by", " 1 ", "1">>
    /\ outcome = "True"
    /\ cards = <<<<"Card_1", 2>>>>

\* the file has no counted line, or its counted lines hold some id more than
\* MAX_COPIES times
NoMainDeckIds == CountedLines = {}
OverTheLimit == \E card_id \in FileIds : Occurrences(card_id) > MAX_COPIES

\* C21: a load of a file without main-deck ids, or with a name that occurs more
\* than MAX_COPIES times, returns False and leaves the deck without cards and
\* without category members, whatever the deck held before and whatever cards
\* of the file come before the offending name; no load ends in an exception.
C21_FailedLoadLeavesNothing ==
    last_call = "load_ydk_code" =>
        /\ outcome \in {"True", "False"}
        /\ (NoMainDeckIds \/ OverTheLimit) =>
              /\ outcome = "False"
              /\ cards = << >>
              /\ get_deck_size(cards) = 0
              /\ engine_cards = {} /\ non_engine_cards = {} /\ brick_cards = {}
        /\ outcome = "False" => cards = << >>

\* a load has failed on a file whose first id is within the limit and whose
\* second id comes MAX_COPIES + 1 times
C21_Witness ==
    /\ last_call = "load_ydk_code"
    /\ outcome = "False"
    /\ ydk_code = <<"#main", "1", "2", "2", "2", "2">>
    /\ cards = << >>

ReadOnlyCalls == {"get_deck_list", "random.shuffle", "draw_test_hand", "simulate_6th_card",
                  "calculate_6th_card_odds", "calculate_probabilities"}

\* C22: get_deck_list, draw_test_hand, simulate_6th_card, calculate_6th_card_odds
\* and calculate_probabilities change neither deck.cards nor a category set; the
\* list get_deck_list has returned is a snapshot: shuffling it leaves the deck as
\* it is, and add_card and clear_deck leave the list as it is.
C22_ReadOnly ==
    [][/\ last_call' \in ReadOnlyCalls => deck_vars' = deck_vars
       /\ last_call' = "get_deck_list" => deck_list' = get_deck_list(cards)
       /\ last_call' = "random.shuffle" =>
             \A k \in Names : Count(deck_list', k) = GetOr(cards', k, 0)
       /\ last_call' \in {"add_card", "clear_deck"} => deck_list' = deck_list]_vars

\* the caller holds a shuffled list of a deck with categories, and the deck has
\* changed since: the list still has a name the deck no longer has
C22_Witness ==
    /\ last_call = "clear_deck"
    /\ Len(deck_list) >= 3
    /\ deck_list[1] # deck_list[2]
    /\ cards = << >>

\* the copies of the cards before position i whose names are in `counted`
RECURSIVE CopiesBefore(_, _, _)
CopiesBefore(d, i, counted) ==
    IF i <= 1 THEN 0
    ELSE CopiesBefore(d, i - 1, counted)
           + (IF d[i - 1][1] \in counted THEN d[i - 1][2] ELSE 0)
\* what is left of the target when the walk comes to position i, the cards of
\* `counted` before it having used up their copies
RemainingAt(d, i, target, counted) == target - CopiesBefore(d, i, counted)
\* the names a pass adds: not taken by an earlier pass, reached with something
\* left, and with all copies within what is left
PassAdds(d, target, skip, counted) ==
    {d[i][1] : i \in {j \in 1..Len(d) :
                        /\ d[j][1] \notin skip
                        /\ RemainingAt(d, j, target, counted) > 0
                        /\ d[j][2] <= RemainingAt(d, j, target, counted)}}
AssignCalls == {"gui.apply_and_draw", "draw_manager.apply_and_draw"}

BrickVisited(d, brick_count) ==
    {i \in 1..Len(d) : RemainingAt(d, i, brick_count, KeySet(d)) > 0}

\* C24: the brick pass starts with remaining = brick_target and walks the cards
\* in insertion order; it visits a card only while remaining > 0, adds a visited
\* card if and only if its copy count <= remaining, and takes the copy count off
\* remaining whether or not the card was added.
C24_BrickPass ==
    last_call \in AssignCalls =>
        /\ brick_cards = {cards[i][1] : i \in {j \in BrickVisited(cards, counts[1]) :
                              cards[j][2] <= RemainingAt(cards, j, counts[1], KeySet(cards))}}
        /\ \A i \in 1..Len(cards) :
              i \notin BrickVisited(cards, counts[1]) => cards[i][1] \notin brick_cards
        /\ CategoryTotal(cards, brick_cards) <= counts[1]

\* the first card is too large for the brick target and uses it up: the second
\* card would fit and is not reached
C24_Witness ==
    /\ last_call \in AssignCalls
    /\ Len(cards) >= 2
    /\ counts[1] >= 1
    /\ cards[1][2] > counts[1]
    /\ cards[2][2] <= counts[1]
    /\ brick_cards = {}

\* the composite as the claim states it, in percent: P(at least 1 brick in the
\* opening hand) + P(no brick in the opening hand) * brick_total/(deck_size - 5)
\* when deck_size > 5, and P(at least 1 brick in the opening hand) otherwise
BrickByNextDraw(deck_size, brick_total) ==
    LET at_least_one == probability_at_least(deck_size, brick_total, HAND_SIZE, 1)
        none == hypergeometric_probability(deck_size, brick_total, HAND_SIZE, 0)
    IN  IF deck_size > 5
        THEN FloatMul(FloatAdd(at_least_one,
                               FloatMul(none, Float(brick_total, deck_size - 5))),
                      Float(100, 1))
        ELSE FloatMul(at_least_one, Float(100, 1))

Numeric(text) == text \in {"", "0", " 1 ", "2", "-1", "-2"}

Meant(text) ==
    CASE text = "" -> 0
      [] text = "0" -> 0
      [] text = " 1 " -> 1
      [] text = "2" -> 2
      [] text = "-1" -> 0 - 1
      [] text = "-2" -> 0 - 2
      [] OTHER -> 0

TargetsMet(d, targets) ==
    /\ Len(targets) = 3
    /\ \A i \in 1..3 : targets[i] >= 0
    /\ targets[1] + targets[2] + targets[3] <= get_deck_size(d)

ErrorBoxes == {"showwarning", "showerror"}

\* every click on "Apply & Draw Hand" the window can get in its present state
ClicksChecked ==
    last_call \in GuiCalls =>
        \A brick_text \in EntryTexts, non_engine_text \in EntryTexts, engine_text \in EntryTexts :
            LET texts == <<brick_text, non_engine_text, engine_text>>
                targets == [i \in 1..3 |-> Meant(texts[i])]
                refused == \/ ~deck_loaded
                           \/ \E i \in 1..3 : ~Numeric(texts[i])
                           \/ ~TargetsMet(cards, targets)
            IN  \A applied \in {apply_and_draw(Deck, deck_loaded, brick_text, non_engine_text,
                                               engine_text),
                                draw_manager_apply_and_draw(Deck, deck_loaded, brick_text,
                                                            non_engine_text, engine_text)} :
                    IF refused
                    THEN applied.report \in ErrorBoxes /\ applied.deck = Deck
                                                        /\ applied.counts = << >>
                    ELSE applied.report = "None" /\ applied.counts = targets

\* a click that ends in a message box leaves the sets and the hand alone, and a
\* click that runs the partition has run it on targets that meet the condition
ClickStep ==
    last_call' = "gui.apply_and_draw" =>
        IF outcome' \in ErrorBoxes
        THEN UNCHANGED <<cards, engine_cards, non_engine_cards, brick_cards, hand>>
        ELSE TargetsMet(cards, counts')

\* an answer to a prompt is either turned down, with a message and the same
\* prompt again, or lies between 0 and what the counts before it leave
PromptStep ==
    last_call' \in {"input", "run_simulator"} =>
        \/ /\ last_call' = "input"
           /\ outcome' \in {"Enter a valid number.", "Enter a number between"}
           /\ UNCHANGED <<cards, engine_cards, non_engine_cards, brick_cards, counts>>
        \/ /\ Len(counts') = Len(counts) + 1
           /\ SubSeq(counts', 1, Len(counts)) = counts
           /\ LET entered == counts'[Len(counts')]
                  before == IF Len(counts) = 0 THEN 0
                            ELSE IF Len(counts) = 1 THEN counts[1]
                            ELSE counts[1] + counts[2]
              IN  0 <= entered /\ entered <= get_deck_size(cards) - before
           /\ last_call' = "run_simulator" <=> Len(counts') = 3
           /\ last_call' = "run_simulator" => TargetsMet(cards', counts')

\* C26: the callers enforce the condition of the partition. In the window a
\* click with no deck loaded, with an entry that is no number, with a negative
\* target or with a sum above the deck size ends in a message box and leaves the
\* three sets and the hand as they were, and every other click runs the
\* partition with the numbers entered; at the command line a count is asked for
\* again until it lies between 0 and the deck size less the counts before it.
C26_CallersEnforcePrecondition == [](ClicksChecked) /\ [][ClickStep /\ PromptStep]_vars

C26_Witness ==
    /\ last_call = "gui.apply_and_draw"
    /\ outcome = "showerror"
    /\ deck_loaded
    /\ brick_cards # {}
    /\ non_engine_cards # {}
    /\ hand # << >>

\* the names at the positions first..last of the insertion order
Block(d, first, last) == {d[i][1] : i \in {j \in 1..Len(d) : first <= j /\ j <= last}}

\* C27: when every card of the deck has exactly 1 copy, the assignment realizes
\* the three targets exactly: the brick set is the first brick_count names of
\* the insertion order, the non-engine set the next non_engine_count names and
\* the engine set the engine_count names after them.
C27_SingleCopiesExact ==
    (last_call \in AssignCalls /\ \A i \in 1..Len(cards) : cards[i][2] = 1) =>
        /\ brick_cards = Block(cards, 1, counts[1])
        /\ non_engine_cards = Block(cards, counts[1] + 1, counts[1] + counts[2])
        /\ engine_cards = Block(cards, counts[1] + counts[2] + 1,
                                counts[1] + counts[2] + counts[3])
        /\ Cardinality(brick_cards) = counts[1]
        /\ Cardinality(non_engine_cards) = counts[2]
        /\ Cardinality(engine_cards) = counts[3]

\* a deck of four single cards split into three blocks, none of them empty
C27_Witness ==
    /\ last_call \in AssignCalls
    /\ Len(cards) = 4
    /\ \A i \in 1..Len(cards) : cards[i][2] = 1
    /\ counts = <<1, 2, 1>>
    /\ brick_cards = {cards[1][1]}
    /\ engine_cards = {cards[4][1]}

\* (total - in hand) / (deck_size - 5), and 0 when deck_size - 5 <= 0
SixthOdds(total, in_hand, deck_size) ==
    IF deck_size - 5 <= 0 THEN Zero ELSE Float(total - in_hand, deck_size - 5)

SixthOddsAsStated(deck, current_hand, shown, scale) ==
    LET deck_size == get_deck_size(deck.cards)
        Stated(category) == FloatMul(SixthOdds(CategoryTotal(deck.cards, category),
                                               InHand(current_hand, category), deck_size),
                                     Float(scale, 1))
        sum == FloatAdd(FloatAdd(shown.engine_prob, shown.non_engine_prob), shown.brick_prob)
    IN  /\ shown.engine_prob = Stated(deck.engine)
        /\ shown.non_engine_prob = Stated(deck.non_engine)
        /\ shown.brick_prob = Stated(deck.brick)
        /\ deck_size > 5 =>
              /\ shown.engine_remaining >= 0
              /\ shown.non_engine_remaining >= 0
              /\ shown.brick_remaining >= 0
              /\ sum.num <= scale * sum.den

\* C28: the 6th-card odds are defined for every deck and every hand drawn from
\* it, by calculate_6th_card_odds and by display_statistics of the window
\* (there as percentages): 0 for each category when deck_size - 5 <= 0, with no
\* division by zero, and (total - in hand) / (deck_size - 5) with a numerator
\* >= 0 and a sum of at most 1 when deck_size > 5.
C28_SixthCardOddsDefined ==
    /\ outcome # "ZeroDivisionError"
    /\ \A current_hand \in ShuffledHands(cards) :
          /\ SixthOddsAsStated(Deck, current_hand, calculate_6th_card_odds(Deck, current_hand), 1)
          /\ gui_6th_card_odds(Deck, current_hand).raised = "None"
          /\ SixthOddsAsStated(Deck, current_hand, gui_6th_card_odds(Deck, current_hand), 100)

\* C29: in the window deck_loaded is true only while the deck holds the cards
\* of a successful load: after a load that failed the application is not
\* loaded, and no click runs the partition and the draw on the emptied deck.
C29_LoadedOnlyWithDeck ==
    /\ deck_loaded => cards # << >>
    /\ (last_call = "gui.load_deck" /\ outcome = "showerror") => ~deck_loaded
    /\ (last_call = "gui.apply_and_draw" /\ cards = << >>) => outcome = "showwarning"

\* C30: the cache maps an id only to a name the lookup service returned, never
\* to the placeholder Unknown_<id>, whatever requests failed, so that an id
\* whose lookup failed is asked for again; and no call asks the service for an
\* id that is in the cache.
C30_CacheHoldsServiceNames ==
    /\ [](\A card_id \in KeySet(card_name_cache) :
              /\ GetItem(card_name_cache, card_id) # "Unknown_" \o card_id
              /\ GetItem(card_name_cache, card_id) = ServiceName(card_id))
    /\ [][requested' \cap KeySet(card_name_cache) = {}]_vars
====
